---- MODULE Spec2Model ----
(***************************************************************************)
(* Handoff / session state machine of the University Support System:       *)
(* swarm_client/client.py (process_query, get_agent_by_name) and           *)
(* chat_system/views.py (chat_endpoint, clear_chat) over the                *)
(* chat_system/models.py tables.                                           *)
(*                                                                         *)
(* Text is modelled as a sequence of lexemes (atomic pieces of text), so   *)
(* the empty string is <<>>, concatenation is \o, and "x in content" is    *)
(* an occurrence of lexeme x.  Positions in the sequence are positions in  *)
(* the text.  A Python value that may be None is <<>> (None) or <<v>>.     *)
(* A string-typed field that may be None holds NoneStr for None.           *)
(*                                                                         *)
(* Left out: the created_at / last_active / timestamp columns (rows are    *)
(* kept in creation order instead), the function_response column (never   *)
(* written), the text of the JSON response body, and failures of the       *)
(* database itself.  The oracle (swarm_client.run) either raises or        *)
(* returns an object with a messages list; which of the two, and which     *)
(* messages, is chosen nondeterministically.  Since process_query catches  *)
(* every exception of its body, the except branch of chat_endpoint         *)
(* (views.py:175-191) is reached only by database failures and does not    *)
(* occur here.                                                             *)
(***************************************************************************)
EXTENDS Integers, Sequences, FiniteSets, TLC

VARIABLES
    session,    \* UserSession table: session_id -> [current_agent]
    messages,   \* Message table: session_id -> rows in timestamp order
    last,       \* the request or call handled last, with its response
    input,      \* what a specification draws once: the arguments of a direct
                \* process_query call, the embedding oracle's similarities
    index,      \* the EmbeddingIndex objects of the process, None before
                \* they are constructed
    cache,      \* the cache files of the indexes, None while they do not
                \* exist
    threads     \* the requests and tool calls in progress, each with its
                \* position in the code and its local variables

vars == <<session, messages, last, input, index, cache, threads>>

-----------------------------------------------------------------------------
(* Bounds *)

MaxSessions == 2
MaxTurns == 2

-----------------------------------------------------------------------------
(* Optional values and text *)

None == <<>>
Some(v) == <<v>>
IsNone(o) == Len(o) = 0
Val(o) == o[1]

NoneStr == "None"

\* Python truthiness of an optional text: None and "" are falsy.
TruthyText(o) == ~IsNone(o) /\ Len(Val(o)) > 0

\* Python truthiness of an optional string field.
TruthyStr(s) == s # NoneStr /\ s # ""

TokCourse == "call_course_advisor_agent"
TokPoet == "call_university_poet_agent"
TokSched == "call_scheduling_assistant_agent"

Tokens == {TokCourse, TokPoet, TokSched}

\* The phrases of the natural-language rule (client.py:207).
Phrases ==
    {"transfer to university poet", "transfer to poet",
     "university poet agent", "culture agent"}

\* Lexemes an oracle may emit.  The handoff tokens, text with no marker,
\* a phrase in mixed case, and a token in upper case (no token for the
\* case-sensitive rule, no phrase either).
Lexemes ==
    {"hello", TokCourse, TokPoet, TokSched, "Culture Agent",
     "CALL_COURSE_ADVISOR_AGENT"}

\* str.lower() on a lexeme.
LowerLex(l) ==
    CASE l = "Culture Agent" -> "culture agent"
      [] l = "CALL_COURSE_ADVISOR_AGENT" -> TokCourse
      [] l = "University Poet Agent" -> "university poet agent"
      [] l = "Course Advisor Agent" -> "course advisor agent"
      [] l = "Scheduling Assistant Agent" -> "scheduling assistant agent"
      [] l = "Triage Agent" -> "triage agent"
      [] OTHER -> l

Lower(text) == [i \in 1..Len(text) |-> LowerLex(text[i])]

\* "x in text" for a lexeme x.
Contains(text, x) == \E i \in 1..Len(text) : text[i] = x

-----------------------------------------------------------------------------
(* Agent registry: client.py get_agent_by_name, get_agent_display_name *)

AgentIds ==
    {"triage_agent", "course_advisor_agent", "university_poet_agent",
     "scheduling_assistant_agent"}

handoff_functions == <<TokCourse, TokPoet, TokSched>>

course_tools ==
    <<"recommend_courses_func", "check_prerequisites_func",
      "compare_paths_func", "get_course_info_func">>

create_triage_agent(handoffs) ==
    [name |-> "Triage Agent", instructions |-> "TRIAGE_INSTRUCTIONS",
     functions |-> handoffs]

create_course_advisor_agent(tools, handoffs) ==
    [name |-> "Course Advisor Agent",
     instructions |-> "COURSE_ADVISOR_INSTRUCTIONS",
     functions |-> tools \o handoffs]

create_university_poet_agent(tools, handoffs) ==
    [name |-> "University Poet Agent",
     instructions |-> "UNIVERSITY_POET_INSTRUCTIONS",
     functions |-> tools \o handoffs]

create_scheduling_assistant_agent(tools, handoffs) ==
    [name |-> "Scheduling Assistant Agent",
     instructions |-> "SCHEDULING_ASSISTANT_INSTRUCTIONS",
     functions |-> tools \o handoffs]


\* Mutant: no default for an unknown name (the lookup yields no agent).
get_agent_by_name_NoDefault(agent_name) ==
    IF agent_name = "triage_agent"
        THEN create_triage_agent(handoff_functions)
    ELSE IF agent_name = "course_advisor_agent"
        THEN create_course_advisor_agent(course_tools, handoff_functions)
    ELSE IF agent_name = "university_poet_agent"
        THEN create_university_poet_agent(<<>>, handoff_functions)
    ELSE IF agent_name = "scheduling_assistant_agent"
        THEN create_scheduling_assistant_agent(<<>>, handoff_functions)
    ELSE [name |-> NoneStr, instructions |-> NoneStr, functions |-> <<>>]

get_agent_by_name(agent_name) ==
    IF agent_name = "triage_agent"
        THEN create_triage_agent(handoff_functions)
    ELSE IF agent_name = "course_advisor_agent"
        THEN create_course_advisor_agent(course_tools, handoff_functions)
    ELSE IF agent_name = "university_poet_agent"
        THEN create_university_poet_agent(<<>>, handoff_functions)
    ELSE IF agent_name = "scheduling_assistant_agent"
        THEN create_scheduling_assistant_agent(<<>>, handoff_functions)
    ELSE create_triage_agent(handoff_functions)

get_agent_display_name(agent_name) ==
    IF agent_name = "triage_agent" THEN "Triage Agent"
    ELSE IF agent_name = "course_advisor_agent" THEN "Course Advisor Agent"
    ELSE IF agent_name = "university_poet_agent" THEN "University Poet Agent"
    ELSE IF agent_name = "scheduling_assistant_agent"
        THEN "Scheduling Assistant Agent"
    ELSE "Agent"

-----------------------------------------------------------------------------
(* Message dictionaries exchanged with the oracle *)

FunctionNames == {"recommend_courses_func"}

\* A message dict.  content is optional text; name, function_name,
\* function_call and tool_calls hold NoneStr when the key is absent or None,
\* else the (first) function's name.
Dict(role, content, name, function_name, function_call, tool_calls) ==
    [role |-> role, content |-> content, name |-> name,
     function_name |-> function_name, function_call |-> function_call,
     tool_calls |-> tool_calls]

PlainDict(role, content) ==
    Dict(role, content, NoneStr, NoneStr, NoneStr, NoneStr)

\* The oracle's answer to one swarm_client.run call: it raises, or it returns
\* a Response whose messages is a list of dicts.
Raises == [raises |-> TRUE, messages |-> <<>>]
Returns(msgs) == [raises |-> FALSE, messages |-> msgs]

\* str(e) of the exception an oracle call raises.
ErrText == "oracle unavailable"

-----------------------------------------------------------------------------
(* client.py process_query *)

\* Mutant: a tool message keeps its role.
FilterOne_ToolKept(msg) ==
    LET name1 == IF msg.role = "function" /\ msg.name = NoneStr
                     THEN IF TruthyStr(msg.function_name)
                              THEN msg.function_name
                              ELSE "generic_function"
                     ELSE msg.name
        msg_copy == [msg EXCEPT !.name = name1]
    IN IF TruthyText(msg_copy.content)
          \/ TruthyStr(msg_copy.function_call)
          \/ TruthyStr(msg_copy.tool_calls)
          THEN <<msg_copy>>
          ELSE <<>>

\* One pass of the loop body at client.py:134-158.
FilterOne(msg) ==
    LET role1 == IF msg.role = "tool" THEN "function" ELSE msg.role
        name1 == IF role1 = "function" /\ msg.name = NoneStr
                     THEN IF TruthyStr(msg.function_name)
                              THEN msg.function_name
                              ELSE "generic_function"
                     ELSE msg.name
        msg_copy == [msg EXCEPT !.role = role1, !.name = name1]
    IN IF TruthyText(msg_copy.content)
          \/ TruthyStr(msg_copy.function_call)
          \/ TruthyStr(msg_copy.tool_calls)
          THEN <<msg_copy>>
          ELSE <<>>

RECURSIVE FilterMessages(_)
FilterMessages(session_messages) ==
    IF session_messages = <<>> THEN <<>>
    ELSE FilterOne(Head(session_messages))
             \o FilterMessages(Tail(session_messages))


\* Mutant: the natural-language rule is missing.
DetectInMessage_NoPhrase(msg, det) ==
    IF IsNone(msg.content) THEN det
    ELSE LET content == Val(msg.content) IN
        IF Contains(content, TokCourse)
            THEN [new_agent |-> "course_advisor_agent",
                  handoff_detected |-> TRUE]
        ELSE IF Contains(content, TokPoet)
            THEN [new_agent |-> "university_poet_agent",
                  handoff_detected |-> TRUE]
        ELSE IF Contains(content, TokSched)
            THEN [new_agent |-> "scheduling_assistant_agent",
                  handoff_detected |-> TRUE]
        ELSE det

\* Mutant: the scheduling branch names the poet (a copied branch).
DetectInMessage_SchedAsPoet(msg, det) ==
    IF IsNone(msg.content) THEN det
    ELSE LET content == Val(msg.content) IN
        IF Contains(content, TokCourse)
            THEN [new_agent |-> "course_advisor_agent",
                  handoff_detected |-> TRUE]
        ELSE IF Contains(content, TokPoet)
            THEN [new_agent |-> "university_poet_agent",
                  handoff_detected |-> TRUE]
        ELSE IF Contains(content, TokSched)
            THEN [new_agent |-> "university_poet_agent",
                  handoff_detected |-> TRUE]
        ELSE IF \E x \in Phrases : Contains(Lower(content), x)
            THEN [new_agent |-> "university_poet_agent",
                  handoff_detected |-> TRUE]
        ELSE det

\* Mutant: the natural-language rule hands the turn back to triage.
DetectInMessage_PhraseAsTriage(msg, det) ==
    IF IsNone(msg.content) THEN det
    ELSE LET content == Val(msg.content) IN
        IF Contains(content, TokCourse)
            THEN [new_agent |-> "course_advisor_agent",
                  handoff_detected |-> TRUE]
        ELSE IF Contains(content, TokPoet)
            THEN [new_agent |-> "university_poet_agent",
                  handoff_detected |-> TRUE]
        ELSE IF Contains(content, TokSched)
            THEN [new_agent |-> "scheduling_assistant_agent",
                  handoff_detected |-> TRUE]
        ELSE IF \E x \in Phrases : Contains(Lower(content), x)
            THEN [new_agent |-> "triage_agent",
                  handoff_detected |-> TRUE]
        ELSE det

\* The if/elif chain at client.py:192-210 applied to one output message.
\* det is the pair (new_agent, handoff_detected) carried through the loop.
DetectInMessage(msg, det) ==
    IF IsNone(msg.content) THEN det
    ELSE LET content == Val(msg.content) IN
        IF Contains(content, TokCourse)
            THEN [new_agent |-> "course_advisor_agent",
                  handoff_detected |-> TRUE]
        ELSE IF Contains(content, TokPoet)
            THEN [new_agent |-> "university_poet_agent",
                  handoff_detected |-> TRUE]
        ELSE IF Contains(content, TokSched)
            THEN [new_agent |-> "scheduling_assistant_agent",
                  handoff_detected |-> TRUE]
        ELSE IF \E x \in Phrases : Contains(Lower(content), x)
            THEN [new_agent |-> "university_poet_agent",
                  handoff_detected |-> TRUE]
        ELSE det

\* The loop at client.py:188: every message is scanned, in order, and a
\* later match overwrites an earlier one.
RECURSIVE ScanMessages(_, _)
ScanMessages(msgs, det) ==
    IF msgs = <<>> THEN det
    ELSE ScanMessages(Tail(msgs), DetectInMessage(Head(msgs), det))

DetectHandoff(result_messages, current_agent) ==
    ScanMessages(result_messages,
                 [new_agent |-> current_agent, handoff_detected |-> FALSE])

\* Mutant: the target is re-invoked without the system framing message.
HandoffMessages_NoFraming(user_query, new_agent) ==
    <<PlainDict("user", Some(user_query))>>

\* client.py:220-223
HandoffMessages(user_query, new_agent) ==
    <<PlainDict("system",
                Some(<<"You are the ", get_agent_display_name(new_agent),
                       ".">>)),
      PlainDict("user", Some(user_query))>>

\* client.py:232-235
HandoffNotification(new_agent) ==
    PlainDict("assistant",
              Some(<<"I'll transfer you to the ",
                     get_agent_display_name(new_agent), ".">>))

\* client.py:254-261: a tool or function message with no content gets a
\* placeholder.
Placeholder(msg) ==
    IF (msg.role = "tool" \/ msg.role = "function") /\ IsNone(msg.content)
        THEN IF TruthyStr(msg.name)
                 THEN [msg EXCEPT !.content =
                           Some(<<"[Results from ", msg.name, "]">>)]
                 ELSE [msg EXCEPT !.content = Some(<<"[Function result]">>)]
        ELSE msg


\* Mutant: the handoff branch returns the agent the turn started with.
HandoffResult_Stale(response_messages, current_agent, new_agent) ==
    [messages |-> response_messages,
     current_agent |-> current_agent,
     agent_display_name |-> get_agent_display_name(new_agent)]

\* Mutant: the handoff branch returns the delta without the notification.
HandoffResult_NoNotice(response_messages, current_agent, new_agent) ==
    [messages |-> <<response_messages[1]>>
                      \o SubSeq(response_messages, 3, Len(response_messages)),
     current_agent |-> new_agent,
     agent_display_name |-> get_agent_display_name(new_agent)]

\* Mutant: the handoff branch returns the display name as the agent.
HandoffResult_DisplayName(response_messages, current_agent, new_agent) ==
    [messages |-> response_messages,
     current_agent |-> get_agent_display_name(new_agent),
     agent_display_name |-> get_agent_display_name(new_agent)]

\* client.py:243-247
HandoffResult(response_messages, current_agent, new_agent) ==
    [messages |-> response_messages,
     current_agent |-> new_agent,
     agent_display_name |-> get_agent_display_name(new_agent)]


\* Mutant: the no-handoff branch falls back to triage.
NoHandoffResult_Triage(response_messages, current_agent) ==
    [messages |-> response_messages,
     current_agent |-> "triage_agent",
     agent_display_name |-> get_agent_display_name(current_agent)]

\* client.py:267-271
NoHandoffResult(response_messages, current_agent) ==
    [messages |-> response_messages,
     current_agent |-> current_agent,
     agent_display_name |-> get_agent_display_name(current_agent)]


\* Mutant: the except branch always answers as triage.
ErrorResult_Triage(user_query, current_agent, e) ==
    [messages |->
         <<PlainDict("user", Some(user_query)),
           PlainDict("assistant",
                     Some(<<"I'm sorry, I encountered an error: ", e>>))>>,
     current_agent |-> "triage_agent",
     agent_display_name |-> get_agent_display_name("triage_agent")]

\* client.py:273-285, the except branch.
ErrorResult(user_query, current_agent, e) ==
    LET agent == IF TruthyStr(current_agent) THEN current_agent
                 ELSE "triage_agent"
    IN [messages |->
            <<PlainDict("user", Some(user_query)),
              PlainDict("assistant",
                        Some(<<"I'm sorry, I encountered an error: ", e>>))>>,
        current_agent |-> agent,
        agent_display_name |-> get_agent_display_name(agent)]

\* What one call of process_query did: the dict it returned, the oracle
\* calls it made (agent definition and messages submitted), the outputs the
\* oracle returned, what the detector found, and whether a call raised.
Outcome(result, calls, outputs, det, raised) ==
    [result |-> result, calls |-> calls, outputs |-> outputs,
     handoff_detected |-> det.handoff_detected, new_agent |-> det.new_agent,
     raised |-> raised]

\* Mutant: the reply of the handoff target is scanned as well, and the turn
\* is handed to the agent it names.
process_query_Rescan(user_query, session_messages, current_agent0, run1, run2) ==
    LET current_agent == IF TruthyStr(current_agent0) THEN current_agent0
                         ELSE "triage_agent"
        call1 == [agent |-> get_agent_by_name(current_agent),
                  messages |->
                      FilterMessages(session_messages)
                          \o <<PlainDict("user", Some(user_query))>>]
        nodet == [new_agent |-> current_agent, handoff_detected |-> FALSE]
        det == DetectHandoff(run1.messages, current_agent)
        call2 == [agent |-> get_agent_by_name(det.new_agent),
                  messages |-> HandoffMessages(user_query, det.new_agent)]
        det2 == DetectHandoff(run2.messages, det.new_agent)
    IN IF run1.raises
       THEN Outcome(ErrorResult(user_query, current_agent, ErrText),
                    <<call1>>, <<>>, nodet, TRUE)
       ELSE IF det.handoff_detected
       THEN IF run2.raises
            THEN Outcome(ErrorResult(user_query, current_agent, ErrText),
                         <<call1, call2>>, <<run1.messages>>, det, TRUE)
            ELSE Outcome(
                     HandoffResult(
                         <<PlainDict("user", Some(user_query)),
                           HandoffNotification(det.new_agent)>>
                             \o run2.messages,
                         current_agent, det2.new_agent),
                     <<call1, call2>>, <<run1.messages, run2.messages>>,
                     det, FALSE)
       ELSE Outcome(
                NoHandoffResult(
                    <<PlainDict("user", Some(user_query))>>
                        \o [i \in 1..Len(run1.messages) |->
                                Placeholder(run1.messages[i])],
                    current_agent),
                <<call1>>, <<run1.messages>>, det, FALSE)

\* process_query(user_query, session_messages, current_agent) when the
\* first swarm_client.run answers run1 and the second (if made) run2.
process_query(user_query, session_messages, current_agent0, run1, run2) ==
    LET current_agent == IF TruthyStr(current_agent0) THEN current_agent0
                         ELSE "triage_agent"
        filtered_messages ==
            FilterMessages(session_messages)
                \o <<PlainDict("user", Some(user_query))>>
        call1 == [agent |-> get_agent_by_name(current_agent),
                  messages |-> filtered_messages]
        nodet == [new_agent |-> current_agent, handoff_detected |-> FALSE]
    IN IF run1.raises
       THEN Outcome(ErrorResult(user_query, current_agent, ErrText),
                    <<call1>>, <<>>, nodet, TRUE)
       ELSE
       LET det == DetectHandoff(run1.messages, current_agent)
           new_agent == det.new_agent
           call2 == [agent |-> get_agent_by_name(new_agent),
                     messages |-> HandoffMessages(user_query, new_agent)]
       IN IF det.handoff_detected
          THEN IF run2.raises
               THEN Outcome(ErrorResult(user_query, current_agent, ErrText),
                            <<call1, call2>>, <<run1.messages>>, det, TRUE)
               ELSE Outcome(
                        HandoffResult(
                            <<PlainDict("user", Some(user_query)),
                              HandoffNotification(new_agent)>>
                                \o run2.messages,
                            current_agent, new_agent),
                        <<call1, call2>>, <<run1.messages, run2.messages>>,
                        det, FALSE)
          ELSE Outcome(
                   NoHandoffResult(
                       <<PlainDict("user", Some(user_query))>>
                           \o [i \in 1..Len(run1.messages) |->
                                   Placeholder(run1.messages[i])],
                       current_agent),
                   <<call1>>, <<run1.messages>>, det, FALSE)

-----------------------------------------------------------------------------
(* chat_system/models.py and chat_system/views.py *)

\* Mutant: a new row starts with the course advisor.
UserSession_Advisor == [current_agent |-> "course_advisor_agent"]

\* UserSession row; current_agent defaults to "triage_agent".
UserSession == [current_agent |-> "triage_agent"]

\* Message row.  Rows of a session are kept in creation order, which is the
\* order of their auto_now_add timestamps.
Message(role, content, agent_name, function_name, function_arguments) ==
    [role |-> role, content |-> content, agent_name |-> agent_name,
     function_name |-> function_name,
     function_arguments |-> function_arguments]

\* views.py:60-76: one stored row as the dict handed to process_query.
MessageDict(row) ==
    LET base == PlainDict(row.role, Some(row.content)) IN
    IF TruthyStr(row.function_name)
        THEN IF row.role = "assistant"
                 THEN [base EXCEPT !.function_call = row.function_name]
             ELSE IF row.role = "function"
                 THEN [base EXCEPT !.name = row.function_name]
             ELSE base
        ELSE base

ExistingMessages(rows) == [i \in 1..Len(rows) |-> MessageDict(rows[i])]

\* Mutant: every saved row carries the agent's display name.
SavedRow_AllNamed(msg, agent_display_name) ==
    Message(msg.role,
            IF IsNone(msg.content) THEN <<>> ELSE Val(msg.content),
            agent_display_name, NoneStr, NoneStr)

\* views.py:99-130: the row created for one message of the result.
SavedRow(msg, agent_display_name) ==
    LET function_name ==
            IF TruthyStr(msg.function_call) THEN msg.function_call
            ELSE IF TruthyStr(msg.tool_calls) THEN msg.tool_calls
            ELSE NoneStr
        function_args == IF function_name = NoneStr THEN NoneStr ELSE "{}"
        content ==
            IF IsNone(msg.content)
                THEN IF function_name # NoneStr
                         THEN <<"[Function call: ", function_name, "]">>
                         ELSE <<>>
                ELSE Val(msg.content)
    IN Message(msg.role, content,
               IF msg.role = "assistant" THEN agent_display_name ELSE NoneStr,
               function_name, function_args)

\* Mutant: every message of the result is saved, the query too.
SaveNewMessages_NoSkip(all_messages, user_query, agent_display_name) ==
    [i \in 1..Len(all_messages) |->
        SavedRow(all_messages[i], agent_display_name)]

\* views.py:93-130: every message of the result is saved except a user
\* message that repeats the query.
RECURSIVE SaveNewMessages(_, _, _)
SaveNewMessages(all_messages, user_query, agent_display_name) ==
    IF all_messages = <<>> THEN <<>>
    ELSE LET msg == Head(all_messages)
             rest == SaveNewMessages(Tail(all_messages), user_query,
                                     agent_display_name)
         IN IF msg.role = "user" /\ msg.content = Some(user_query)
                THEN rest
                ELSE <<SavedRow(msg, agent_display_name)>> \o rest

\* views.py:134-136
PersistAgent(row, result) == [row EXCEPT !.current_agent = result.current_agent]

\* Session ids are 1, 2, ... in creation order (uuid4 never repeats).  A
\* request names no session (NoSession) or any id, created or not.
NoSession == 0
SessionIds == 1..MaxSessions
SessionIdInputs == 0..(Cardinality(DOMAIN session) + 1)
Exists(session_id) == session_id \in DOMAIN session
NewSessionId == Cardinality(DOMAIN session) + 1

\* Chat turns whose rows are stored.
UserRows(rows) == Cardinality({i \in 1..Len(rows) : rows[i].role = "user"})
RECURSIVE SumTurns(_)
SumTurns(ids) ==
    IF ids = {} THEN 0
    ELSE LET s == CHOOSE x \in ids : TRUE
         IN UserRows(messages[s]) + SumTurns(ids \ {s})
StoredTurns == SumTurns(DOMAIN session)

NoOutcome ==
    Outcome([messages |-> <<>>, current_agent |-> NoneStr,
             agent_display_name |-> NoneStr],
            <<>>, <<>>,
            [new_agent |-> NoneStr, handoff_detected |-> FALSE], FALSE)

\* The request handled last: the handler, the http status answered, the
\* session it worked on (NoSession if none), that session's current_agent
\* and number of rows when the request arrived, the query, and what
\* process_query did.
Handled(op, status, session_id, before_agent, before_rows, query, pq) ==
    [op |-> op, status |-> status, session_id |-> session_id,
     before_agent |-> before_agent, before_rows |-> before_rows,
     query |-> query, pq |-> pq]

NoRequest == Handled("none", 0, NoSession, NoneStr, 0, <<>>, NoOutcome)

NoInput ==
    [user_query |-> <<>>, session_messages |-> <<>>,
     current_agent |-> NoneStr, run1 |-> Raises, run2 |-> Raises]

\* Oracle messages of the session-level specification.
A_hello == PlainDict("assistant", Some(<<"hello">>))
A_toolcall ==
    Dict("assistant", None, NoneStr, NoneStr, NoneStr,
         "recommend_courses_func")
T_result == PlainDict("tool", Some(<<"hello">>))
A_course == PlainDict("assistant", Some(<<"hello", TokCourse>>))
A_sched == PlainDict("assistant", Some(<<TokSched>>))
A_phrase == PlainDict("assistant", Some(<<"Culture Agent">>))

\* What the first oracle call of a turn may answer: plain text, a tool call
\* with its result, one marker, or two markers in two messages.
Outputs1 ==
    {<<A_hello>>, <<A_toolcall, T_result>>,
     <<A_course>>, <<A_sched>>, <<A_phrase>>,
     <<A_sched, A_course>>, <<A_course, A_phrase>>}

Runs1 == {Raises} \cup {Returns(o) : o \in Outputs1}

\* What the re-invocation of a handoff target may answer.  The second call
\* is made only when the first returned and the detector found a directive.
SecondCall(run1) ==
    ~run1.raises /\ DetectHandoff(run1.messages, NoneStr).handoff_detected

Runs2(run1) ==
    IF SecondCall(run1)
        THEN {Raises, Returns(<<A_toolcall, T_result>>)}
        ELSE {Raises}

Queries == {<<"hi">>}

\* views.py chat_endpoint: the request body fails to parse.
chat_endpoint_malformed ==
    /\ last' = Handled("chat", 500, NoSession, NoneStr, 0, <<>>, NoOutcome)
    /\ UNCHANGED <<session, messages, input, index, cache, threads>>

\* views.py chat_endpoint: no query in the body.
chat_endpoint_no_query(session_id) ==
    /\ last' = Handled("chat", 400, NoSession, NoneStr, 0, <<>>, NoOutcome)
    /\ UNCHANGED <<session, messages, input, index, cache, threads>>

\* views.py chat_endpoint with a query: get or create the session, save the
\* user message, run process_query, save its messages, persist the agent.
chat_endpoint(user_query, session_id, run1, run2) ==
    LET create == session_id = NoSession \/ ~Exists(session_id)
        sid == IF create THEN NewSessionId ELSE session_id
        row == IF create THEN UserSession ELSE session[sid]
        rows == IF create THEN <<>> ELSE messages[sid]
        rows1 == Append(rows, Message("user", user_query, NoneStr, NoneStr,
                                      NoneStr))
        pq == process_query(user_query, ExistingMessages(rows1),
                            row.current_agent, run1, run2)
        result == pq.result
        rows2 == rows1 \o SaveNewMessages(result.messages, user_query,
                                          result.agent_display_name)
    IN /\ Len(user_query) > 0
       /\ create => Cardinality(DOMAIN session) < MaxSessions
       /\ StoredTurns < MaxTurns
       /\ session' = [s \in DOMAIN session \cup {sid} |->
                         IF s = sid THEN PersistAgent(row, result)
                         ELSE session[s]]
       /\ messages' = [s \in DOMAIN session \cup {sid} |->
                          IF s = sid THEN rows2 ELSE messages[s]]
       /\ last' = Handled("chat", 200, sid, row.current_agent, Len(rows),
                          user_query, pq)
       /\ UNCHANGED <<input, index, cache, threads>>

\* views.py clear_chat: no session id in the body.
clear_chat_no_id ==
    /\ last' = Handled("clear", 400, NoSession, NoneStr, 0, <<>>, NoOutcome)
    /\ UNCHANGED <<session, messages, input, index, cache, threads>>


\* Mutant: the messages are deleted but the agent is not reset.
clear_chat_KeepAgent(session_id) ==
    /\ session_id # NoSession
    /\ IF Exists(session_id)
          THEN /\ messages' = [messages EXCEPT ![session_id] = <<>>]
               /\ UNCHANGED session
               /\ last' = Handled("clear", 200, session_id,
                                  session[session_id].current_agent,
                                  Len(messages[session_id]), <<>>, NoOutcome)
          ELSE /\ UNCHANGED <<session, messages>>
               /\ last' = Handled("clear", 404, session_id, NoneStr, 0, <<>>,
                                  NoOutcome)
    /\ UNCHANGED <<input, index, cache, threads>>

\* Mutant: clearing deletes only the newest message of the session.
clear_chat_DropLast(session_id) ==
    /\ session_id # NoSession
    /\ IF Exists(session_id)
          THEN /\ messages' = [messages EXCEPT ![session_id] =
                                   SubSeq(@, 1, Len(@) - 1)]
               /\ session' = [session EXCEPT
                                 ![session_id].current_agent = "triage_agent"]
               /\ last' = Handled("clear", 200, session_id,
                                  session[session_id].current_agent,
                                  Len(messages[session_id]), <<>>, NoOutcome)
          ELSE /\ UNCHANGED <<session, messages>>
               /\ last' = Handled("clear", 404, session_id, NoneStr, 0, <<>>,
                                  NoOutcome)
    /\ UNCHANGED <<input, index, cache, threads>>

\* views.py clear_chat with a session id.
clear_chat(session_id) ==
    /\ session_id # NoSession
    /\ IF Exists(session_id)
          THEN /\ messages' = [messages EXCEPT ![session_id] = <<>>]
               /\ session' = [session EXCEPT
                                 ![session_id].current_agent = "triage_agent"]
               /\ last' = Handled("clear", 200, session_id,
                                  session[session_id].current_agent,
                                  Len(messages[session_id]), <<>>, NoOutcome)
          ELSE /\ UNCHANGED <<session, messages>>
               /\ last' = Handled("clear", 404, session_id, NoneStr, 0, <<>>,
                                  NoOutcome)
    /\ UNCHANGED <<input, index, cache, threads>>

Init ==
    /\ session = <<>>
    /\ messages = <<>>
    /\ last = NoRequest
    /\ input = NoInput
    /\ index = None
    /\ cache = None
    /\ threads = <<>>

Next ==
    \/ chat_endpoint_malformed
    \/ \E session_id \in SessionIdInputs : chat_endpoint_no_query(session_id)
    \/ \E user_query \in Queries, session_id \in SessionIdInputs,
          run1 \in Runs1 : \E run2 \in Runs2(run1) :
            chat_endpoint(user_query, session_id, run1, run2)
    \/ clear_chat_no_id
    \/ \E session_id \in SessionIdInputs : clear_chat(session_id)

Spec == Init /\ [][Next]_vars

-----------------------------------------------------------------------------
(* process_query called directly, on arguments drawn from bounded sets *)

MaxOutPQ == 2

Markers == {TokCourse, TokPoet, TokSched, "Culture Agent"}

\* Contents of an oracle message: text with no marker, one marker, two
\* distinct markers in either order, or a token in upper case.
PQContents ==
    {<<"hello">>, <<"CALL_COURSE_ADVISOR_AGENT">>}
        \cup {<<m>> : m \in Markers}
        \cup {<<p[1], p[2]>> :
                  p \in {q \in Markers \X Markers : q[1] # q[2]}}

T_empty == Dict("tool", None, "recommend_courses_func", NoneStr, NoneStr,
                NoneStr)

PQMsgs ==
    {PlainDict("assistant", Some(c)) : c \in PQContents}
        \cup {A_toolcall, T_empty}

PQOutputs == UNION {[1..k -> PQMsgs] : k \in 0..MaxOutPQ}

\* A persisted pointer may be any string: the four ids, a stale id, the
\* empty string; the parameter's default is None.
PQAgents == AgentIds \cup {"stale_agent", "", NoneStr}

\* The third history is what views.py reads from the rows of an earlier
\* turn: the query, an assistant row stored with empty content, a function
\* call, its tool result, a tool row stored with empty content, an answer,
\* and the row of the new query.
PQHistories ==
    {<<>>,
     <<PlainDict("user", Some(<<"hi">>)), A_toolcall, T_result,
       PlainDict("user", Some(<<"hi">>))>>,
     ExistingMessages(
         <<Message("user", <<"hi">>, NoneStr, NoneStr, NoneStr),
           Message("assistant", <<>>, "Triage Agent", NoneStr, NoneStr),
           Message("assistant",
                   <<"[Function call: ", "recommend_courses_func", "]">>,
                   "Triage Agent", "recommend_courses_func", "{}"),
           Message("tool", <<"hello">>, NoneStr, NoneStr, NoneStr),
           Message("tool", <<>>, NoneStr, NoneStr, NoneStr),
           Message("assistant", <<"hello">>, "Triage Agent", NoneStr,
                   NoneStr),
           Message("user", <<"hi">>, NoneStr, NoneStr, NoneStr)>>)}

\* The arguments of one call and the answers the oracle will give.
PQInput(session_messages, current_agent, run1, run2) ==
    [user_query |-> <<"hi">>, session_messages |-> session_messages,
     current_agent |-> current_agent, run1 |-> run1, run2 |-> run2]

InitPQ ==
    /\ session = <<>>
    /\ messages = <<>>
    /\ last = NoRequest
    /\ \E h \in PQHistories, a \in PQAgents,
          r1 \in {Raises} \cup {Returns(o) : o \in PQOutputs},
          r2 \in {Raises, Returns(<<A_hello>>), Returns(<<A_sched>>)} :
            /\ SecondCall(r1) \/ r2 = Raises
            /\ input = PQInput(h, a, r1, r2)
    /\ index = None
    /\ cache = None
    /\ threads = <<>>

call_process_query ==
    /\ last.op = "none"
    /\ last' = Handled("process_query", 0, NoSession, input.current_agent,
                       Len(input.session_messages), input.user_query,
                       process_query(input.user_query, input.session_messages,
                                     input.current_agent, input.run1,
                                     input.run2))
    /\ UNCHANGED <<session, messages, input, index, cache, threads>>

NextPQ == call_process_query

SpecPQ == InitPQ /\ [][NextPQ]_vars

\* The calls whose termination is checked: every history and pointer, with
\* the oracle answers of the session-level specification, and a handoff
\* target that answers with plain text or with a handoff token.
InitPQFair ==
    /\ session = <<>>
    /\ messages = <<>>
    /\ last = NoRequest
    /\ \E h \in PQHistories, a \in PQAgents, r1 \in Runs1,
          r2 \in {Raises, Returns(<<A_hello>>), Returns(<<A_sched>>)} :
            /\ SecondCall(r1) \/ r2 = Raises
            /\ input = PQInput(h, a, r1, r2)
    /\ index = None
    /\ cache = None
    /\ threads = <<>>

\* process_query runs to its return statement once it is called: its loops
\* run over finite lists and each swarm_client.run returns or raises.
SpecPQFair == InitPQFair /\ [][NextPQ]_vars /\ WF_vars(NextPQ)

-----------------------------------------------------------------------------
(* utils/embedding_utils.py *)

MaxItems == 3
MaxTopK == 3

\* Cosine similarities, in hundredths: 30 is 0.3.
Scores == {-20, 30, 50}

\* The items handed to an index, numbered in the order of the list.
ItemList(n) == [i \in 1..n |-> i]

\* embed_items: the oracle returns one vector per item text, the same vector
\* for the same text; a vector is known by the item whose text it embeds.
embed_items(items) == [i \in 1..Len(items) |-> [of |-> items[i]]]

\* np.array([]): the one-dimensional array with no element.
EmptyArray == <<>>

\* EmbeddingIndex.__init__.  loaded records that load_or_create has returned
\* on the object.
EmbeddingIndex == [items |-> <<>>, embeddings |-> EmptyArray, loaded |-> FALSE]

\* save_embeddings: the pickle written to the cache file.
save_embeddings(items, embeddings) ==
    [readable |-> TRUE, items |-> items, embeddings |-> embeddings]

\* A cache file that pickle.load cannot read.
UnreadableFile == [readable |-> FALSE, items |-> <<>>, embeddings |-> <<>>]

\* EmbeddingIndex.load_or_create(items, force_rebuild) on the object self
\* with the cache file as it is: the object and the file afterwards, and
\* whether embed_items was called.  items is None or a list.
load_or_create(self, file, items, force_rebuild) ==
    LET loads == ~force_rebuild /\ ~IsNone(file) /\ Val(file).readable
        builds == ~loads /\ ~IsNone(items) /\ Len(Val(items)) > 0
    IN IF loads
          THEN [self |-> [items |-> Val(file).items,
                          embeddings |-> Val(file).embeddings,
                          loaded |-> TRUE],
                file |-> file, built |-> FALSE]
       ELSE IF builds
          THEN [self |-> [items |-> Val(items),
                          embeddings |-> embed_items(Val(items)),
                          loaded |-> TRUE],
                file |-> Some(save_embeddings(Val(items),
                                              embed_items(Val(items)))),
                built |-> TRUE]
       ELSE [self |-> [self EXCEPT !.loaded = TRUE], file |-> file,
             built |-> FALSE]

\* cosine_similarity([query_embedding], embeddings)[0]: the similarity of
\* the query to each stored vector, as the oracle's vectors give it.
cosine_similarity(sim, embeddings) ==
    [i \in 1..Len(embeddings) |-> sim[embeddings[i].of]]

\* similarity_scores.argsort(): every order of the positions that sorts the
\* scores ascending.  The default sort is not stable, so positions of equal
\* scores may come out in any order.
RECURSIVE ArgSortsOf(_, _)
ArgSortsOf(a, todo) ==
    IF todo = {} THEN {<<>>}
    ELSE UNION {{<<i>> \o r : r \in ArgSortsOf(a, todo \ {i})} :
                   i \in {j \in todo : \A k \in todo : a[j] <= a[k]}}

argsort(a) == ArgSortsOf(a, DOMAIN a)

\* argsort as one process runs it: the sort is a function of the array, so
\* the same scores come back in the same order on every call.  It is one
\* of the orders of argsort: positions of equal scores come in ascending
\* position when the sort is stable, else in descending position.
RECURSIVE SortedFrom(_, _, _)
SortedFrom(a, todo, stable) ==
    IF todo = {} THEN <<>>
    ELSE LET m == CHOOSE j \in todo : \A k \in todo :
                      \/ a[j] < a[k]
                      \/ a[j] = a[k] /\ IF stable THEN j <= k ELSE j >= k
         IN <<m>> \o SortedFrom(a, todo \ {m}, stable)

argsort_by(a, stable) == SortedFrom(a, DOMAIN a, stable)

\* Mutant: the sorted positions are not reversed.
Reversed_Not(s) == s

\* [::-1]
Reversed(s) == [i \in 1..Len(s) |-> s[Len(s) + 1 - i]]

\* Mutant: the threshold is compared with >.
Keeps_Strict(score, threshold, n, top_k) == score > threshold /\ n < top_k

\* embedding_utils.py:78: the test that appends a result.
Keeps(score, threshold, n, top_k) == score >= threshold /\ n < top_k

\* embedding_utils.py:75-86: the loop over the sorted positions.
RECURSIVE Collect(_, _, _, _, _, _)
Collect(indices, items, scores, top_k, threshold, results) ==
    IF indices = <<>> THEN results
    ELSE LET idx == Head(indices) IN
         Collect(Tail(indices), items, scores, top_k, threshold,
                 IF Keeps(scores[idx], threshold, Len(results), top_k)
                     THEN Append(results, [item |-> items[idx],
                                           score |-> scores[idx]])
                     ELSE results)

\* similarity_search when argsort answers order.  cosine_similarity raises
\* ValueError on the one-dimensional empty array.
similarity_search(sim, items, embeddings, top_k, threshold, order) ==
    IF embeddings = EmptyArray
        THEN [raised |-> TRUE, results |-> <<>>]
        ELSE [raised |-> FALSE,
              results |-> Collect(Reversed(order), items,
                                  cosine_similarity(sim, embeddings),
                                  top_k, threshold, <<>>)]

\* EmbeddingIndex.search
search(self, sim, top_k, threshold, order) ==
    similarity_search(sim, self.items, self.embeddings, top_k, threshold,
                      order)

-----------------------------------------------------------------------------
(* One EmbeddingIndex object, loaded and searched by its caller *)

\* What the caller did last with the index, and what came back.
IndexCall(op, top_k, threshold, out) ==
    [op |-> op, top_k |-> top_k, threshold |-> threshold,
     raised |-> out.raised, results |-> out.results]

ItemArgs == {None} \cup {Some(ItemList(n)) : n \in 0..MaxItems}

CacheFiles ==
    {None, Some(UnreadableFile),
     Some(save_embeddings(ItemList(MaxItems), embed_items(ItemList(MaxItems))))}

InitIndex ==
    /\ session = <<>>
    /\ messages = <<>>
    /\ last = NoRequest
    /\ input \in [sim : [1..MaxItems -> Scores]]
    /\ index = Some(EmbeddingIndex)
    /\ cache \in CacheFiles
    /\ threads = <<>>

call_load_or_create(items, force_rebuild) ==
    LET done == load_or_create(Val(index), cache, items, force_rebuild) IN
    /\ index' = Some(done.self)
    /\ cache' = done.file
    /\ last' = IndexCall("load_or_create", 0, 0,
                         [raised |-> FALSE, results |-> <<>>])
    /\ UNCHANGED <<session, messages, input, threads>>

call_search(top_k, threshold) ==
    \E order \in argsort(cosine_similarity(input.sim, Val(index).embeddings)) :
        /\ last' = IndexCall("search", top_k, threshold,
                             search(Val(index), input.sim, top_k, threshold,
                                    order))
        /\ UNCHANGED <<session, messages, input, index, cache, threads>>

NextIndex ==
    \/ \E items \in ItemArgs, force_rebuild \in BOOLEAN :
           call_load_or_create(items, force_rebuild)
    \/ \E top_k \in 0..MaxTopK, threshold \in Scores :
           call_search(top_k, threshold)

SpecIndex == InitIndex /\ [][NextIndex]_vars

-----------------------------------------------------------------------------
(* tools/course_tools.py *)

\* A str is the sequence of its characters.
UpperCase ==
    <<"A", "B", "C", "D", "E", "F", "G", "H", "I", "J", "K", "L", "M", "N",
      "O", "P", "Q", "R", "S", "T", "U", "V", "W", "X", "Y", "Z">>
LowerCase ==
    <<"a", "b", "c", "d", "e", "f", "g", "h", "i", "j", "k", "l", "m", "n",
      "o", "p", "q", "r", "s", "t", "u", "v", "w", "x", "y", "z">>

\* str.lower() and str.upper(), character by character.
ToLower ==
    [c \in {UpperCase[k] : k \in 1..26} |->
        LowerCase[CHOOSE k \in 1..26 : UpperCase[k] = c]]
ToUpper ==
    [c \in {LowerCase[k] : k \in 1..26} |->
        UpperCase[CHOOSE k \in 1..26 : LowerCase[k] = c]]
\* Mutant: lower() leaves the text as it is.
lower_Identity(text) == text

lower(text) ==
    [i \in 1..Len(text) |->
        IF text[i] \in DOMAIN ToLower THEN ToLower[text[i]] ELSE text[i]]
upper(text) ==
    [i \in 1..Len(text) |->
        IF text[i] \in DOMAIN ToUpper THEN ToUpper[text[i]] ELSE text[i]]

\* a in b, for two str
IsSubstring(a0, b0) ==
    \E a \in {a0}, b \in {b0} :
        \E i \in 0..(Len(b) - Len(a)) : SubSeq(b, i + 1, i + Len(a)) = a

\* s[:count]
SliceTo(s, count) ==
    IF count >= 0
        THEN SubSeq(s, 1, IF count < Len(s) THEN count ELSE Len(s))
        ELSE SubSeq(s, 1, IF Len(s) + count > 0 THEN Len(s) + count ELSE 0)

\* The keys of COURSES, in the order of the dict.
COURSES ==
    <<"CS101", "CS201", "DS200", "MATH150", "MATH250", "ENG101", "BIO101",
      "PSYCH101", "AI400", "CS300", "FIN201", "FIN301", "BUS101", "BUS220",
      "ECON101">>

\* CAREER_PATHS, in the order of the dict.
CAREER_PATHS ==
    <<[career_path |->
            <<"d", "a", "t", "a", " ", "s", "c", "i", "e", "n", "c", "e">>,
       courses |-> <<"CS101", "MATH150", "DS200", "MATH250", "AI400">>],
      [career_path |->
            <<"s", "o", "f", "t", "w", "a", "r", "e", " ", "e", "n", "g",
              "i", "n", "e", "e", "r", "i", "n", "g">>,
       courses |-> <<"CS101", "CS201", "MATH150", "CS300">>],
      [career_path |->
            <<"r", "e", "s", "e", "a", "r", "c", "h">>,
       courses |-> <<"CS101", "MATH150", "MATH250", "BIO101", "ENG101">>],
      [career_path |->
            <<"b", "u", "s", "i", "n", "e", "s", "s", " ", "a", "n", "a",
              "l", "y", "t", "i", "c", "s">>,
       courses |-> <<"BUS220", "CS101", "DS200", "MATH150", "BUS101">>],
      [career_path |->
            <<"p", "s", "y", "c", "h", "o", "l", "o", "g", "y">>,
       courses |-> <<"PSYCH101", "BIO101", "ENG101", "DS200">>],
      [career_path |->
            <<"f", "i", "n", "a", "n", "c", "e">>,
       courses |-> <<"FIN201", "FIN301", "ECON101", "MATH150", "BUS101">>],
      [career_path |->
            <<"b", "u", "s", "i", "n", "e", "s", "s">>,
       courses |-> <<"BUS101", "ECON101", "ENG101", "BUS220">>],
      [career_path |->
            <<"e", "c", "o", "n", "o", "m", "i", "c", "s">>,
       courses |-> <<"ECON101", "MATH150", "DS200", "FIN201">>]>>

\* Cosine similarity 0.3, the threshold at course_tools.py:273.
CourseThreshold == 30

\* The default of count.
DefaultCount == 3

\* CAREER_PATHS[interest]
PathCourses(career_path) ==
    CAREER_PATHS[CHOOSE i \in 1..Len(CAREER_PATHS) :
                     CAREER_PATHS[i].career_path = career_path].courses

\* Mutant: only the interest is looked for in the key.
PartialMatch_OneWay(interest, career_path) ==
    IsSubstring(lower(interest), lower(career_path))

\* course_tools.py:251: the test of the loop over CAREER_PATHS.
PartialMatch(interest, career_path) ==
    \E a \in {lower(interest)}, b \in {lower(career_path)} :
        IsSubstring(a, b) \/ IsSubstring(b, a)

\* The loop at 250-265 from the i-th key of the dict on: the position of
\* the key it returns on, 0 when it ends without returning.
RECURSIVE PartialFrom(_, _)
PartialFrom(interest, i) ==
    IF i > Len(CAREER_PATHS) THEN 0
    ELSE IF PartialMatch(interest, CAREER_PATHS[i].career_path) THEN i
    ELSE PartialFrom(interest, i + 1)

FirstPartial(interest) == PartialFrom(interest, 1)

\* The lines added for the codes of recommended that are keys of COURSES.
PathLines(recommended) ==
    LET InCourses(code) == \E i \in 1..Len(COURSES) : COURSES[i] = code
        kept == SelectSeq(recommended, InCourses)
    IN [i \in 1..Len(kept) |-> [code |-> kept[i], match |-> None]]

\* The lines added for the search results, each with its match score.
MatchLines(search_results) ==
    [i \in 1..Len(search_results) |->
        [code |-> search_results[i].item,
         match |-> Some(search_results[i].score)]]

\* The string recommend_courses returns: which of its four texts it is, the
\* interest as the text shows it, the career path a partial match names,
\* and one line per course.
Answer(form, shown, related, lines) ==
    [form |-> form, shown |-> shown, related |-> related, lines |-> lines]

\* Mutant: the exact tier is skipped.
ExactTier_Skipped(interest) == FALSE

\* course_tools.py:233: interest in CAREER_PATHS
ExactTier(interest) ==
    \E i \in 1..Len(CAREER_PATHS) : CAREER_PATHS[i].career_path = interest

\* recommend_courses(interest, count) when the course index is self, the
\* oracle's similarities are sim and argsort answers order: the string
\* returned, whether the index was searched, and whether the call raised.
recommend_courses(interest0, count, self, sim, order) ==
    LET interest == lower(interest0) IN
    IF ExactTier(interest)
        THEN [result |-> Answer("exact", interest, <<>>,
                                PathLines(SliceTo(PathCourses(interest),
                                                  count))),
              searched |-> FALSE, raised |-> FALSE]
    ELSE IF FirstPartial(interest) # 0
        THEN LET career_path ==
                     CAREER_PATHS[FirstPartial(interest)].career_path
             IN [result |-> Answer("partial", interest, career_path,
                                   PathLines(SliceTo(PathCourses(career_path),
                                                     count))),
                 searched |-> FALSE, raised |-> FALSE]
    ELSE LET found == search(self, sim, count, CourseThreshold, order) IN
         IF found.raised
             THEN [result |-> Answer("none", interest, <<>>, <<>>),
                   searched |-> TRUE, raised |-> TRUE]
         ELSE IF Len(found.results) > 0
             THEN [result |-> Answer("semantic",
                                     IF IsSubstring(<<"b", "i", "o">>,
                                                    lower(interest))
                                         THEN <<"B", "I", "O", "L", "O",
                                                "G", "Y">>
                                         ELSE upper(interest),
                                     <<>>, MatchLines(found.results)),
                   searched |-> TRUE, raised |-> FALSE]
         ELSE [result |-> Answer("none", interest, <<>>, <<>>),
               searched |-> TRUE, raised |-> FALSE]

\* Mutant: the index object is handed out as __init__ leaves it.
get_course_index_Unbuilt(course_index, file) ==
    [self |-> EmbeddingIndex, file |-> file, built |-> FALSE]

\* Mutant: the index that is reused holds the items in the opposite order.
get_course_index_Reordered(course_index, file) ==
    IF IsNone(course_index)
        THEN load_or_create(EmbeddingIndex, file, Some(COURSES), TRUE)
        ELSE [self |-> [items |-> Reversed(COURSES),
                        embeddings |-> embed_items(Reversed(COURSES)),
                        loaded |-> TRUE],
              file |-> file, built |-> FALSE]

\* _get_course_index: the module's index object and the cache file after
\* it, and whether the vectors were computed.
get_course_index(course_index, file) ==
    IF IsNone(course_index)
        THEN load_or_create(EmbeddingIndex, file, Some(COURSES), TRUE)
        ELSE [self |-> Val(course_index), file |-> file, built |-> FALSE]

\* The keys of COURSES as str, in the order of the dict.
CourseCodes ==
    <<<<"C", "S", "1", "0", "1">>, <<"C", "S", "2", "0", "1">>,
      <<"D", "S", "2", "0", "0">>, <<"M", "A", "T", "H", "1", "5", "0">>,
      <<"M", "A", "T", "H", "2", "5", "0">>, <<"E", "N", "G", "1", "0", "1">>,
      <<"B", "I", "O", "1", "0", "1">>,
      <<"P", "S", "Y", "C", "H", "1", "0", "1">>,
      <<"A", "I", "4", "0", "0">>, <<"C", "S", "3", "0", "0">>,
      <<"F", "I", "N", "2", "0", "1">>, <<"F", "I", "N", "3", "0", "1">>,
      <<"B", "U", "S", "1", "0", "1">>, <<"B", "U", "S", "2", "2", "0">>,
      <<"E", "C", "O", "N", "1", "0", "1">>>>

\* COURSES[code]["prerequisites"], in the order of COURSES.
Prerequisites ==
    <<<<>>, <<"CS101">>, <<"CS101", "MATH150">>, <<>>, <<"MATH150">>, <<>>,
      <<>>, <<>>, <<"CS201", "DS200", "MATH250">>, <<"CS201">>,
      <<"MATH150">>, <<"FIN201">>, <<>>, <<"BUS101", "MATH150">>, <<>>>>

\* The position in COURSES of the key spelled course_code, 0 when
\* course_code is not in COURSES.
CourseAt(course_code) ==
    IF \E i \in 1..Len(CourseCodes) : CourseCodes[i] = course_code
        THEN CHOOSE i \in 1..Len(CourseCodes) : CourseCodes[i] = course_code
        ELSE 0

\* get_course_info(course_code): the dict returned, with the prerequisites
\* of a course that is found.
get_course_info(course_code0) ==
    LET course_code == upper(course_code0)
        at == CourseAt(course_code)
    IN [result |-> IF at # 0
                       THEN Answer("info", course_code, <<>>,
                                   PathLines(Prerequisites[at]))
                       ELSE Answer("none", course_code, <<>>, <<>>),
        searched |-> FALSE, raised |-> FALSE]

\* check_course_prerequisites(course_code): which of its three texts is
\* returned, with one line per prerequisite.
check_course_prerequisites(course_code0) ==
    LET course_code == upper(course_code0)
        at == CourseAt(course_code)
    IN [result |-> IF at = 0
                       THEN Answer("none", course_code, <<>>, <<>>)
                   ELSE IF Prerequisites[at] = <<>>
                       THEN Answer("open", course_code, <<>>, <<>>)
                   ELSE Answer("prerequisites", course_code, <<>>,
                               PathLines(Prerequisites[at])),
        searched |-> FALSE, raised |-> FALSE]

-----------------------------------------------------------------------------
(* tools/poet_tools.py *)

\* The keys of CAMPUS_LOCATIONS and of UNIVERSITY_TRADITIONS, in the order
\* of the dicts.  An item of the two indexes is known by its name.
CAMPUS_LOCATIONS ==
    <<"library", "quad", "student center", "cafeteria", "dormitory",
      "lecture hall", "laboratory", "sports field", "art studio",
      "campus garden">>
UNIVERSITY_TRADITIONS ==
    <<"freshman orientation", "graduation ceremony", "homecoming",
      "final exams", "spring break", "campus concert", "midnight breakfast",
      "research symposium">>

\* Cosine similarity 0.4, the threshold at poet_tools.py:199-200.
PoetThreshold == 40

\* _get_location_index and _get_tradition_index, as _get_course_index.
get_location_index(location_index, file) ==
    IF IsNone(location_index)
        THEN load_or_create(EmbeddingIndex, file, Some(CAMPUS_LOCATIONS), TRUE)
        ELSE [self |-> Val(location_index), file |-> file, built |-> FALSE]
get_tradition_index(tradition_index, file) ==
    IF IsNone(tradition_index)
        THEN load_or_create(EmbeddingIndex, file,
                            Some(UNIVERSITY_TRADITIONS), TRUE)
        ELSE [self |-> Val(tradition_index), file |-> file, built |-> FALSE]

\* all_results.sort(key=score, reverse=True): list.sort is stable, also
\* when reversed, so results of equal score keep their order.
RECURSIVE SortedByScore(_)
SortedByScore(s) ==
    IF s = <<>> THEN <<>>
    ELSE LET m == CHOOSE i \in 1..Len(s) : \A k \in 1..Len(s) :
                      \/ s[i].score > s[k].score
                      \/ s[i].score = s[k].score /\ i <= k
         IN <<s[m]>> \o SortedByScore([j \in 1..(Len(s) - 1) |->
                                          IF j < m THEN s[j] ELSE s[j + 1]])

\* _search_all_indices(query, top_k) on the two index objects: the best
\* match or None, and whether a search raised.
search_all_indices(location_index, tradition_index, sim, stable, top_k) ==
    LET location_results ==
            search(location_index, sim, top_k, PoetThreshold,
                   argsort_by(cosine_similarity(sim,
                                                location_index.embeddings),
                              stable))
        tradition_results ==
            search(tradition_index, sim, top_k, PoetThreshold,
                   argsort_by(cosine_similarity(sim,
                                                tradition_index.embeddings),
                              stable))
        all_results ==
            SortedByScore(location_results.results
                              \o tradition_results.results)
    IN [raised |-> location_results.raised \/ tradition_results.raised,
        best |-> IF all_results = <<>> THEN None ELSE Some(all_results[1])]

\* get_poetry_inspiration(topic): which of its texts is returned, for which
\* entry and with which match score.
get_poetry_inspiration(topic, location_index, tradition_index, sim, stable) ==
    LET found == search_all_indices(location_index, tradition_index, sim,
                                    stable, 1)
    IN IF found.raised
           THEN [result |-> Answer("none", topic, <<>>, <<>>),
                 searched |-> TRUE, raised |-> TRUE]
       ELSE IF IsNone(found.best)
           THEN [result |-> Answer("none", topic, <<>>, <<>>),
                 searched |-> TRUE, raised |-> FALSE]
       ELSE [result |-> Answer("inspiration", topic, <<>>,
                               MatchLines(<<Val(found.best)>>)),
             searched |-> TRUE, raised |-> FALSE]

-----------------------------------------------------------------------------
(* The tools as an agent calls them in one process after another *)

MaxCount == 3

\* What the oracle's vectors give in one run of the system: the similarity
\* of a query to the fifteen course texts, the ten location texts and the
\* eight tradition texts, in hundredths and in the order of the dicts, and
\* whether the run's argsort keeps equal scores in position order.
SimTables ==
    {[courses |-> <<5, 4, 12, 8, 7, 15, 62, 35, 10, 3, 2, 1, 6, 9, 11>>,
      locations |-> <<70, 20, 15, 10, 5, 30, 25, 12, 18, 41>>,
      traditions |-> <<22, 50, 13, 9, 7, 16, 11, 45>>,
      stable |-> TRUE],
     [courses |-> <<5, 4, 12, 8, 7, 15, 22, 25, 10, 3, 2, 1, 6, 9, 11>>,
      locations |-> <<39, 20, 15, 10, 5, 30, 25, 12, 18, 21>>,
      traditions |-> <<22, 35, 13, 9, 7, 16, 11, 5>>,
      stable |-> TRUE],
     [courses |-> <<41, 40, 55, 33, 30, 15, 20, 25, 55, 38, 2, 1, 6, 9, 11>>,
      locations |-> <<45, 20, 45, 10, 5, 30, 25, 12, 18, 21>>,
      traditions |-> <<22, 45, 13, 9, 7, 16, 11, 45>>,
      stable |-> TRUE],
     [courses |-> <<41, 40, 55, 33, 30, 15, 20, 25, 55, 38, 2, 1, 6, 9, 11>>,
      locations |-> <<35, 20, 35, 10, 5, 30, 25, 12, 18, 21>>,
      traditions |-> <<22, 60, 13, 9, 7, 16, 11, 60>>,
      stable |-> FALSE]}

\* The similarity of the query to the text of each item, by the item.
SimOf(table) ==
    LET At(keys, key) == CHOOSE i \in 1..Len(keys) : keys[i] = key
        KeysOf(keys) == {keys[i] : i \in 1..Len(keys)}
    IN [key \in KeysOf(COURSES) \cup KeysOf(CAMPUS_LOCATIONS)
                    \cup KeysOf(UNIVERSITY_TRADITIONS) |->
           IF key \in KeysOf(COURSES)
               THEN table.courses[At(COURSES, key)]
           ELSE IF key \in KeysOf(CAMPUS_LOCATIONS)
               THEN table.locations[At(CAMPUS_LOCATIONS, key)]
           ELSE table.traditions[At(UNIVERSITY_TRADITIONS, key)]]

\* Interests an agent may pass: "data science", "Busi", "Data Science",
\* "DATA SCIENCE", "science", "Business", "I like finance", "biology" and
\* the empty string.
Interests ==
    {<<"d", "a", "t", "a", " ", "s", "c", "i", "e", "n", "c", "e">>,
     <<"B", "u", "s", "i">>,
     <<"D", "a", "t", "a", " ", "S", "c", "i", "e", "n", "c", "e">>,
     <<"D", "A", "T", "A", " ", "S", "C", "I", "E", "N", "C", "E">>,
     <<"s", "c", "i", "e", "n", "c", "e">>,
     <<"B", "u", "s", "i", "n", "e", "s", "s">>,
     <<"I", " ", "l", "i", "k", "e", " ", "f", "i", "n", "a", "n", "c", "e">>,
     <<"b", "i", "o", "l", "o", "g", "y">>,
     <<>>}

Counts == -1..MaxCount \cup {DefaultCount}

\* Course codes an agent may look up: "cs201", "BIO101" and "xyz9".
LookupCodes ==
    {<<"c", "s", "2", "0", "1">>, <<"B", "I", "O", "1", "0", "1">>,
     <<"x", "y", "z", "9">>}

\* The indexes of the process and their cache files, by collection name.
NoIndexes ==
    [courses |-> None, campus_locations |-> None,
     university_traditions |-> None]

\* What a tool call did and returned, and how it compares with the call
\* before it: first_use when it found the module's index of the collection
\* name unset, had_cache when the cache file of that collection was there,
\* repeated when the call before was the same tool with the same arguments,
\* prev_built when that call computed the vectors, unchanged when it
\* returned the same.
ToolCall(op, interest, count, out, built, name) ==
    LET repeated ==
            last.op = op /\ last.interest = interest /\ last.count = count
    IN [op |-> op, interest |-> interest, count |-> count,
        result |-> out.result, searched |-> out.searched,
        raised |-> out.raised, built |-> built,
        first_use |-> out.searched /\ IsNone(index[name]),
        had_cache |-> ~IsNone(cache[name]) /\ Val(cache[name]).readable,
        repeated |-> repeated,
        prev_built |-> repeated /\ last.built,
        unchanged |-> repeated /\ last.result = out.result
                          /\ last.raised = out.raised]

\* The first process starts with no cache file, or with the files an
\* earlier process has left.
InitRec ==
    /\ session = <<>>
    /\ messages = <<>>
    /\ last = NoRequest
    /\ input \in {[sim |-> SimOf(t), stable |-> t.stable] : t \in SimTables}
    /\ index = NoIndexes
    /\ cache \in
           {NoIndexes,
            [courses |->
                 Some(save_embeddings(COURSES, embed_items(COURSES))),
             campus_locations |->
                 Some(save_embeddings(CAMPUS_LOCATIONS,
                                      embed_items(CAMPUS_LOCATIONS))),
             university_traditions |->
                 Some(save_embeddings(UNIVERSITY_TRADITIONS,
                                      embed_items(UNIVERSITY_TRADITIONS)))]}
    /\ threads = <<>>

call_recommend_courses(interest, count) ==
    LET tiered == ExactTier(lower(interest))
                      \/ FirstPartial(lower(interest)) # 0
        got == get_course_index(index.courses, cache.courses)
    IN \E order \in {IF tiered THEN <<>>
                      ELSE argsort_by(cosine_similarity(input.sim,
                                                        got.self.embeddings),
                                      input.stable)} :
       \E out \in {recommend_courses(interest, count, got.self, input.sim,
                                     order)} :
       /\ last' = ToolCall("recommend_courses", interest, count, out,
                           out.searched /\ got.built, "courses")
       /\ index' = IF out.searched
                       THEN [index EXCEPT !.courses = Some(got.self)]
                       ELSE index
       /\ cache' = IF out.searched
                       THEN [cache EXCEPT !.courses = got.file]
                       ELSE cache
       /\ UNCHANGED <<session, messages, input, threads>>

call_get_course_info(course_code) ==
    /\ last' = ToolCall("get_course_info", course_code, 0,
                        get_course_info(course_code), FALSE, "courses")
    /\ UNCHANGED <<session, messages, input, index, cache, threads>>

call_check_course_prerequisites(course_code) ==
    /\ last' = ToolCall("check_course_prerequisites", course_code, 0,
                        check_course_prerequisites(course_code), FALSE,
                        "courses")
    /\ UNCHANGED <<session, messages, input, index, cache, threads>>

call_get_poetry_inspiration(topic) ==
    LET locations == get_location_index(index.campus_locations,
                                        cache.campus_locations)
        traditions == get_tradition_index(index.university_traditions,
                                          cache.university_traditions)
    IN \E out \in {get_poetry_inspiration(topic, locations.self,
                                           traditions.self, input.sim,
                                           input.stable)} :
       /\ last' = ToolCall("get_poetry_inspiration", topic, 1, out,
                           locations.built, "campus_locations")
       /\ index' = [index EXCEPT
                        !.campus_locations = Some(locations.self),
                        !.university_traditions = Some(traditions.self)]
       /\ cache' = [cache EXCEPT
                        !.campus_locations = locations.file,
                        !.university_traditions = traditions.file]
       /\ UNCHANGED <<session, messages, input, threads>>

\* The process ends and a new one starts: the module globals are None
\* again, the cache files stay.
new_process ==
    /\ index # NoIndexes
    /\ index' = NoIndexes
    /\ last' = [op |-> "new_process"]
    /\ UNCHANGED <<session, messages, input, cache, threads>>

NextRec ==
    \/ \E interest \in Interests, count \in Counts :
           call_recommend_courses(interest, count)
    \/ \E course_code \in LookupCodes : call_get_course_info(course_code)
    \/ \E course_code \in LookupCodes :
           call_check_course_prerequisites(course_code)
    \/ \E topic \in {"library", "Homecoming", "sunset"} :
           call_get_poetry_inspiration(topic)
    \/ new_process

SpecRec == InitRec /\ [][NextRec]_vars

-----------------------------------------------------------------------------
(* Concurrent first use of the course index in one process *)

MaxCallers == 2

\* threads holds, for each caller of recommend_courses whose interest
\* reaches the semantic tier: where it is in _get_course_index,
\* load_or_create and search, the object load_or_create was called on, the
\* object _get_course_index returned, and what its search gave.  Objects
\* are known by their position in the heap.  index holds the module global
\* _course_index (None or a reference) and the EmbeddingIndex objects
\* constructed so far.
InitRace ==
    /\ session = <<>>
    /\ messages = <<>>
    /\ last = NoRequest
    /\ input \in {[sim |-> SimOf(t), stable |-> t.stable] : t \in SimTables}
    /\ index = [course_index |-> None, heap |-> <<>>]
    /\ cache = NoIndexes
    /\ threads = [c \in 1..MaxCallers |->
                      [pc |-> "test", self |-> 0, course_index |-> 0,
                       out |-> [raised |-> FALSE, results |-> <<>>]]]

\* One step of caller c: it moves to pc with its locals changed.
CallerStep(c, step, next) ==
    /\ threads' = [threads EXCEPT ![c] = next]
    /\ last' = [op |-> step, caller |-> c]
    /\ UNCHANGED <<session, messages, input>>

\* course_tools.py:196: if _course_index is None
get_course_index_test(c) ==
    /\ threads[c].pc = "test"
    /\ CallerStep(c, "test",
                  [threads[c] EXCEPT
                       !.pc = IF IsNone(index.course_index)
                                  THEN "create" ELSE "return"])
    /\ UNCHANGED <<index, cache>>

\* course_tools.py:197: _course_index = EmbeddingIndex("courses", ...)
get_course_index_create(c) ==
    /\ threads[c].pc = "create"
    /\ index' = [course_index |-> Some(Len(index.heap) + 1),
                 heap |-> Append(index.heap, EmbeddingIndex)]
    /\ CallerStep(c, "create", [threads[c] EXCEPT !.pc = "call"])
    /\ UNCHANGED cache

\* course_tools.py:199-214: the items are listed and load_or_create is
\* called on the object the global refers to at that moment; with
\* force_rebuild the cache is not read and embed_items starts.
load_or_create_call(c) ==
    /\ threads[c].pc = "call"
    /\ CallerStep(c, "call",
                  [threads[c] EXCEPT !.pc = "store",
                                     !.self = Val(index.course_index)])
    /\ UNCHANGED <<index, cache>>

\* embedding_utils.py:132-134: embed_items has returned; the items and the
\* vectors are stored on the object and the cache file is written.
load_or_create_store(c) ==
    /\ threads[c].pc = "store"
    /\ LET done == load_or_create(index.heap[threads[c].self], cache.courses,
                                  Some(COURSES), TRUE)
       IN /\ index' = [index EXCEPT !.heap[threads[c].self] = done.self]
          /\ cache' = [cache EXCEPT !.courses = done.file]
    /\ CallerStep(c, "store", [threads[c] EXCEPT !.pc = "return"])

\* course_tools.py:216: return _course_index
get_course_index_return(c) ==
    /\ threads[c].pc = "return"
    /\ CallerStep(c, "return",
                  [threads[c] EXCEPT
                       !.pc = "search",
                       !.course_index = Val(index.course_index)])
    /\ UNCHANGED <<index, cache>>

\* course_tools.py:270-274: course_index.search(interest, count, 0.3) with
\* the default count.
course_index_search(c) ==
    /\ threads[c].pc = "search"
    /\ \E self \in {index.heap[threads[c].course_index]} :
       \E order \in {argsort_by(cosine_similarity(input.sim, self.embeddings),
                                input.stable)} :
           CallerStep(c, "search",
                      [threads[c] EXCEPT
                           !.pc = "done",
                           !.out = search(self, input.sim, DefaultCount,
                                          CourseThreshold, order)])
    /\ UNCHANGED <<index, cache>>

NextRace ==
    \E c \in 1..MaxCallers :
        \/ get_course_index_test(c)
        \/ get_course_index_create(c)
        \/ load_or_create_call(c)
        \/ load_or_create_store(c)
        \/ get_course_index_return(c)
        \/ course_index_search(c)

SpecRace == InitRace /\ [][NextRace]_vars

-----------------------------------------------------------------------------
(* Requests of chat_system/views.py handled concurrently *)

MaxRequests == 2

\* A request being handled: where it is in the view, the session object it
\* holds in memory (its id and its current_agent as read at the start), the
\* rows of the session when it started, the history it read, the oracle's
\* answers and the outcome of process_query, and the session's rows and
\* pointer as its last write left them.  alone is false once another
\* request has written to the same session while this one was in progress,
\* overlapped is true once a request of another session has written while
\* this one was in progress.
Request ==
    [pc |-> "idle", op |-> "none", session_id |-> NoSession, query |-> <<>>,
     current_agent |-> NoneStr, before |-> <<>>, existing |-> <<>>,
     run1 |-> Raises, run2 |-> Raises, pq |-> NoOutcome,
     after_rows |-> <<>>, after_agent |-> NoneStr,
     alone |-> TRUE, overlapped |-> FALSE]

\* Mutant: a row written for one session is written for every session.
WriteRow_All(table, session_id, row) ==
    [s \in DOMAIN table \cup {session_id} |-> row]

\* A create or save of the row (of the rows) of one session: the database
\* writes the row with that key and no other.
WriteRow(table, session_id, row) ==
    [s \in DOMAIN table \cup {session_id} |->
        IF s = session_id THEN row ELSE table[s]]

\* The request r has written to the session sid; next is r's own state.
Written(r, sid, next) ==
    [q \in DOMAIN threads |->
        IF q = r THEN next
        ELSE IF threads[q].pc \in {"idle", "done"} THEN threads[q]
        ELSE IF threads[q].session_id = sid
            THEN [threads[q] EXCEPT !.alone = FALSE]
        ELSE [threads[q] EXCEPT !.overlapped = TRUE]]

\* The tables start empty, or as one earlier turn has left them: a first
\* session whose turn was handed to the course advisor.
InitTurns ==
    /\ LET rows1 == <<Message("user", <<"hi">>, NoneStr, NoneStr, NoneStr)>>
           pq == process_query(<<"hi">>, ExistingMessages(rows1),
                               UserSession.current_agent,
                               Returns(<<A_course>>),
                               Returns(<<A_toolcall, T_result>>))
           rows2 == rows1 \o SaveNewMessages(pq.result.messages, <<"hi">>,
                                             pq.result.agent_display_name)
       IN \/ session = <<>> /\ messages = <<>>
          \/ /\ session = <<PersistAgent(UserSession, pq.result)>>
             /\ messages = <<rows2>>
    /\ last = NoRequest
    /\ input = NoInput
    /\ index = None
    /\ cache = None
    /\ threads = [r \in 1..MaxRequests |-> Request]

\* views.py:40-58: get or create the session, save the user message.
\* Requests are numbered in the order of their arrival.
turn_begin(r, user_query, session_id) ==
    LET create == session_id = NoSession \/ ~Exists(session_id)
        sid == IF create THEN NewSessionId ELSE session_id
        row == IF create THEN UserSession ELSE session[sid]
        rows == IF create THEN <<>> ELSE messages[sid]
    IN /\ threads[r].pc = "idle"
       /\ \A q \in 1..(r - 1) : threads[q].pc # "idle"
       /\ Len(user_query) > 0
       /\ create => Cardinality(DOMAIN session) < MaxSessions
       /\ session' = WriteRow(session, sid, row)
       /\ messages' = WriteRow(messages, sid,
                               Append(rows, Message("user", user_query,
                                                    NoneStr, NoneStr,
                                                    NoneStr)))
       /\ threads' = Written(r, sid,
                             [Request EXCEPT
                                  !.pc = "read", !.op = "chat",
                                  !.session_id = sid, !.query = user_query,
                                  !.current_agent = row.current_agent,
                                  !.before = rows])
       /\ last' = [op |-> "begin", request |-> r, session_id |-> sid]
       /\ UNCHANGED <<input, index, cache>>

\* views.py:60-76: read the rows of the session.
turn_read(r) ==
    /\ threads[r].pc = "read"
    /\ threads' = [threads EXCEPT
                       ![r].pc = "process",
                       ![r].existing =
                           ExistingMessages(messages[threads[r].session_id])]
    /\ last' = [op |-> "read", request |-> r,
                session_id |-> threads[r].session_id]
    /\ UNCHANGED <<session, messages, input, index, cache>>

\* views.py:81-85: process_query on the history read and on the
\* current_agent of the session object in memory.
turn_process(r, run1, run2) ==
    /\ threads[r].pc = "process"
    /\ threads' = [threads EXCEPT
                       ![r].pc = "save",
                       ![r].run1 = run1, ![r].run2 = run2,
                       ![r].pq = process_query(threads[r].query,
                                               threads[r].existing,
                                               threads[r].current_agent,
                                               run1, run2)]
    /\ last' = [op |-> "process", request |-> r,
                session_id |-> threads[r].session_id]
    /\ UNCHANGED <<session, messages, input, index, cache>>

\* views.py:92-136: save the new messages, then the pointer.  The rows and
\* the pointer are written one statement after another, each to this
\* session only.
turn_save(r) ==
    LET sid == threads[r].session_id
        result == threads[r].pq.result
        rows == messages[sid]
                    \o SaveNewMessages(result.messages, threads[r].query,
                                       result.agent_display_name)
        row == PersistAgent(session[sid], result)
    IN /\ threads[r].pc = "save"
       /\ messages' = WriteRow(messages, sid, rows)
       /\ session' = WriteRow(session, sid, row)
       /\ threads' = Written(r, sid,
                             [threads[r] EXCEPT !.pc = "done",
                                                !.after_rows = rows,
                                                !.after_agent =
                                                    row.current_agent])
       /\ last' = [op |-> "save", request |-> r, session_id |-> sid]
       /\ UNCHANGED <<input, index, cache>>

\* views.py:229-236: clear_chat on a session that exists.
turn_clear(r, session_id) ==
    /\ threads[r].pc = "idle"
    /\ \A q \in 1..(r - 1) : threads[q].pc # "idle"
    /\ Exists(session_id)
    /\ messages' = WriteRow(messages, session_id, <<>>)
    /\ session' = WriteRow(session, session_id,
                           [session[session_id] EXCEPT
                                !.current_agent = "triage_agent"])
    /\ threads' = Written(r, session_id,
                          [Request EXCEPT !.pc = "done", !.op = "clear",
                                          !.session_id = session_id])
    /\ last' = [op |-> "clear", request |-> r, session_id |-> session_id]
    /\ UNCHANGED <<input, index, cache>>

NextTurns ==
    \E r \in 1..MaxRequests :
        \/ \E user_query \in Queries, session_id \in SessionIdInputs :
               turn_begin(r, user_query, session_id)
        \/ turn_read(r)
        \/ \E run1 \in {Raises, Returns(<<A_hello>>), Returns(<<A_course>>)} :
               \E run2 \in Runs2(run1) : turn_process(r, run1, run2)
        \/ turn_save(r)
        \/ \E session_id \in SessionIdInputs : turn_clear(r, session_id)

SpecTurns == InitTurns /\ [][NextTurns]_vars

-----------------------------------------------------------------------------
(* tools/schedule_tools.py check_enrollment_status *)

MaxHours == 60

\* The credit hours an agent may pass: any integer, zero and negative
\* numbers included.
Hours == (0 - MaxHours)..MaxHours

\* Mutant: the thresholds are compared with <=.
check_enrollment_status_Inclusive(credit_hours) ==
    LET status == IF credit_hours <= 6 THEN "Less than half-time"
                  ELSE IF credit_hours <= 9 THEN "Half-time"
                  ELSE IF credit_hours <= 12 THEN "Three-quarter time"
                  ELSE "Full-time"
    IN <<"Enrollment status for ", ToString(credit_hours),
         " credit hours: ", status, "\n\n">>

\* schedule_tools.py:205-248.  The text is the sequence of the pieces the
\* f-strings and the += statements put together.
check_enrollment_status(credit_hours) ==
    LET status == IF credit_hours < 6 THEN "Less than half-time"
                  ELSE IF credit_hours < 9 THEN "Half-time"
                  ELSE IF credit_hours < 12 THEN "Three-quarter time"
                  ELSE "Full-time"
        financial_aid ==
            IF credit_hours < 6 THEN "Limited eligibility for financial aid. Most loans and scholarships require at least half-time enrollment."
            ELSE IF credit_hours < 9
                THEN "Eligible for some financial aid options, including some federal loans. Not eligible for full financial aid packages."
            ELSE IF credit_hours < 12
                THEN "Eligible for many financial aid options, but not considered full-time for some scholarships and grants."
            ELSE "Eligible for full financial aid consideration, including maximum loan amounts, scholarships, and grants."
        implications ==
            IF status = "Full-time"
                THEN <<"- Housing: Eligible for on-campus housing priority.\n",
                       "- Athletics: Meets NCAA eligibility requirements.\n",
                       "- International students: Meets F-1/J-1 visa requirements.\n">>
            ELSE <<"- Housing: May affect eligibility for certain on-campus housing options.\n">>
                 \o (IF status = "Less than half-time"
                        THEN <<"- Athletics: Does not meet NCAA eligibility requirements.\n">>
                        ELSE <<"- Athletics: May not meet NCAA eligibility requirements. Consult with athletic department.\n">>)
                 \o <<"- International students: Does not meet F-1/J-1 visa requirements.\n">>
    IN <<"Enrollment status for ", ToString(credit_hours),
         " credit hours: ", status, "\n\n",
         "Status implications:\n",
         "- Financial aid: ", financial_aid, "\n">> \o implications

InitEnroll ==
    /\ session = <<>>
    /\ messages = <<>>
    /\ last = NoRequest
    /\ input = NoInput
    /\ index = None
    /\ cache = None
    /\ threads = <<>>

\* The scheduling assistant calls the tool with the hours the oracle gives.
call_check_enrollment_status(credit_hours) ==
    /\ last' = [op |-> "check_enrollment_status",
                credit_hours |-> credit_hours,
                result |-> check_enrollment_status(credit_hours)]
    /\ UNCHANGED <<session, messages, input, index, cache, threads>>

NextEnroll ==
    \E credit_hours \in Hours : call_check_enrollment_status(credit_hours)

SpecEnroll == InitEnroll /\ [][NextEnroll]_vars

-----------------------------------------------------------------------------
(* Vocabulary of the properties *)

\* The request handled last was a chat turn that ran process_query.
ChatDone == last.op = "chat" /\ last.status = 200

\* The request handled last was a direct call of process_query.
CallDone == last.op = "process_query"

\* A handoff marker as the specification names it: one of the three tokens,
\* or one of the poet/culture phrases in any letter case.
IsToken(l) == l \in Tokens
IsPhrase(l) == LowerLex(l) \in Phrases
TextHasMarker(text) ==
    \E i \in 1..Len(text) : IsToken(text[i]) \/ IsPhrase(text[i])
OutputHasMarker(out) ==
    \E i \in 1..Len(out) :
        ~IsNone(out[i].content) /\ TextHasMarker(Val(out[i].content))

TargetOf(token) ==
    CASE token = TokCourse -> "course_advisor_agent"
      [] token = TokPoet -> "university_poet_agent"
      [] token = TokSched -> "scheduling_assistant_agent"

\* The text of an oracle output in scan order: the messages in order, each
\* message's content from its first lexeme to its last.
RECURSIVE ScanOrder(_)
ScanOrder(out) ==
    IF out = <<>> THEN <<>>
    ELSE (IF IsNone(Head(out).content) THEN <<>> ELSE Val(Head(out).content))
             \o ScanOrder(Tail(out))

TokensIn(out) == {ScanOrder(out)[i] : i \in 1..Len(ScanOrder(out))} \cap Tokens

FirstToken(out) ==
    LET text == ScanOrder(out)
        first == CHOOSE i \in 1..Len(text) :
                     /\ IsToken(text[i])
                     /\ \A j \in 1..(i - 1) : ~IsToken(text[j])
    IN text[first]

\* The first oracle output of the turn handled last, <<>> if the call raised.
FirstOutput == IF Len(last.pq.outputs) > 0 THEN last.pq.outputs[1] ELSE <<>>

\* The turn handled last transferred the conversation: it re-invoked an
\* agent, or its transcript delta holds a transfer notification.
IsNotification(msg) ==
    /\ msg.role = "assistant"
    /\ ~IsNone(msg.content)
    /\ Len(Val(msg.content)) > 0
    /\ Val(msg.content)[1] = "I'll transfer you to the "
Transferred ==
    \/ Len(last.pq.calls) > 1
    \/ \E i \in 1..Len(last.pq.result.messages) :
           IsNotification(last.pq.result.messages[i])

-----------------------------------------------------------------------------
(* C1 *)

\* C1 as stated: whenever the detector finds a directive in a turn's oracle
\* output, process_query returns the detected target as current_agent and
\* the session's stored pointer is that target after the turn.
C1_DetectedIsPersisted ==
    (ChatDone /\ last.pq.handoff_detected) =>
        /\ last.pq.result.current_agent = last.pq.new_agent
        /\ session[last.session_id].current_agent = last.pq.new_agent

C1_Step ==
    /\ (last'.op = "chat" /\ last'.status = 200
            /\ last'.pq.handoff_detected /\ ~last'.pq.raised) =>
        /\ last'.pq.result.current_agent = last'.pq.new_agent
        /\ session'[last'.session_id].current_agent = last'.pq.new_agent
    /\ (last'.op = "chat" /\ last'.status = 200
            /\ last'.session_id \in DOMAIN session) =>
        last'.pq.calls[1].agent =
            get_agent_by_name(session[last'.session_id].current_agent)
    /\ \A s \in DOMAIN session :
           (s # last'.session_id \/ last'.op \notin {"chat", "clear"}
                \/ last'.status # 200) =>
               session'[s] = session[s]

\* C1, amended: when the detector finds a directive and the re-invocation of
\* the target returns, process_query returns the detected target and
\* chat_endpoint stores it on the session; a request changes the pointer of
\* no session but the one it successfully chats on or clears; and every turn
\* of an existing session first invokes the definition of the agent the
\* session's pointer names. So the next turn of the session, with no clear
\* in between, is invoked with the target's definition.
C1_ResolvedHandoffPersists == [][C1_Step]_vars

\* C1 witness: a session that an earlier turn handed to the course advisor
\* is invoked with the course advisor's definition, and hands off again.
C1_Witness ==
    /\ ChatDone
    /\ last.before_agent = "course_advisor_agent"
    /\ last.pq.calls[1].agent.name = "Course Advisor Agent"
    /\ last.pq.handoff_detected /\ ~last.pq.raised
    /\ session[last.session_id].current_agent = "scheduling_assistant_agent"

-----------------------------------------------------------------------------
(* C2 *)

\* C2: when the detector finds no directive in the oracle output of a turn,
\* the transcript delta is the user query followed by the oracle's messages
\* in order, the session's rows grow by the user row followed by one row per
\* oracle message in the same order (same role, same text when the message
\* has text), and the session's pointer is the one the turn started with.
C2_NoDirectiveAppendsInOrder ==
    (ChatDone /\ ~last.pq.raised /\ ~last.pq.handoff_detected) =>
        LET out == last.pq.outputs[1]
            delta == last.pq.result.messages
            rows == messages[last.session_id]
            b == last.before_rows
        IN /\ Len(delta) = 1 + Len(out)
           /\ Len(rows) = b + 1 + Len(out)
           /\ rows[b + 1].role = "user" /\ rows[b + 1].content = last.query
           /\ \A i \in 1..Len(out) :
                  /\ delta[i + 1].role = out[i].role
                  /\ rows[b + 1 + i].role = out[i].role
                  /\ ~IsNone(out[i].content) =>
                         /\ delta[i + 1].content = out[i].content
                         /\ rows[b + 1 + i].content = Val(out[i].content)
           /\ last.pq.result.current_agent = last.before_agent
           /\ session[last.session_id].current_agent = last.before_agent

\* C2 witness: a turn of a session held by the course advisor whose oracle
\* output is two messages with no directive.
C2_Witness ==
    /\ ChatDone /\ ~last.pq.raised /\ ~last.pq.handoff_detected
    /\ last.before_agent = "course_advisor_agent"
    /\ Len(last.pq.outputs[1]) = 2
    /\ last.pq.outputs[1][1] # last.pq.outputs[1][2]

-----------------------------------------------------------------------------
(* C3 *)

\* C3: if an oracle call of a turn raises, the first or the re-invocation
\* of a handoff target, process_query returns a transcript delta of exactly
\* the user query and one assistant message that describes the failure, and
\* returns the pointer the turn started with, which stays the session's.
C3_OracleFailure ==
    (ChatDone /\ last.pq.raised) =>
        LET delta == last.pq.result.messages IN
        /\ Len(delta) = 2
        /\ delta[1].role = "user" /\ delta[1].content = Some(last.query)
        /\ delta[2].role = "assistant"
        /\ ~IsNone(delta[2].content)
        /\ Contains(Val(delta[2].content), ErrText)
        /\ last.pq.result.current_agent = last.before_agent
        /\ session[last.session_id].current_agent = last.before_agent

\* C3 witness: the re-invocation of a detected target raises in a session
\* held by the course advisor, the target being another agent.
C3_Witness ==
    /\ ChatDone /\ last.pq.raised
    /\ Len(last.pq.calls) = 2
    /\ last.pq.handoff_detected
    /\ last.before_agent = "course_advisor_agent"
    /\ last.pq.new_agent = "scheduling_assistant_agent"

-----------------------------------------------------------------------------
(* C4 *)

\* C4 as stated, turn by turn: a session is at triage after a turn iff it
\* was at triage before the turn (a new session is) and no handoff token or
\* phrase appeared in the turn's oracle output.
C4_TriageIffNoMarker ==
    ChatDone =>
        (session[last.session_id].current_agent = "triage_agent"
            <=> (last.before_agent = "triage_agent"
                    /\ ~OutputHasMarker(FirstOutput)))

\* C4, amended: a session is at triage after a turn iff it was at triage
\* before the turn and the turn resolved no handoff, that is, no token or
\* phrase appeared in its first oracle output or the re-invocation of the
\* target raised.
C4_TriageIffNoResolvedHandoff ==
    ChatDone =>
        (session[last.session_id].current_agent = "triage_agent"
            <=> (last.before_agent = "triage_agent"
                    /\ (~OutputHasMarker(FirstOutput) \/ last.pq.raised)))

\* C4 witness: the second turn of a session still at triage, whose oracle
\* output holds only the phrase; the handoff resolves and triage is left.
C4_Witness ==
    /\ ChatDone /\ last.before_rows > 0
    /\ last.before_agent = "triage_agent"
    /\ FirstOutput = <<A_phrase>>
    /\ ~last.pq.raised
    /\ session[last.session_id].current_agent = "university_poet_agent"

-----------------------------------------------------------------------------
(* C5 *)

\* C5 as stated: when the oracle output of a turn holds two or more distinct
\* handoff tokens, the detected target is the agent of the token that comes
\* first in scan order.
C5_FirstTokenWins ==
    (CallDone /\ ~input.run1.raises
        /\ Cardinality(TokensIn(input.run1.messages)) >= 2) =>
        last.pq.new_agent = TargetOf(FirstToken(input.run1.messages))

-----------------------------------------------------------------------------
(* C6 *)

\* C6 as stated: if any message of the oracle output holds an exact token,
\* the detected target is the agent of an exact token of the output, never
\* one that only the phrase rule names.
C6_ExactBeforePhrase ==
    (CallDone /\ ~input.run1.raises /\ TokensIn(input.run1.messages) # {}) =>
        \E t \in TokensIn(input.run1.messages) :
            last.pq.new_agent = TargetOf(t)

-----------------------------------------------------------------------------
(* C7 *)

\* C7 as stated: in a session held by any of the four agents, an oracle
\* output that holds the exact token call_scheduling_assistant_agent makes
\* the detector return the scheduling assistant and the session's stored
\* pointer become scheduling_assistant_agent.
C7_SchedulingToken ==
    (ChatDone /\ Contains(ScanOrder(FirstOutput), TokSched)) =>
        /\ last.pq.handoff_detected
        /\ last.pq.new_agent = "scheduling_assistant_agent"
        /\ session[last.session_id].current_agent
               = "scheduling_assistant_agent"

\* The markers of an output: the lexemes that are a token or a phrase.
MarkersIn(out) ==
    {ScanOrder(out)[i] : i \in 1..Len(ScanOrder(out))}
        \cap {l \in Lexemes : IsToken(l) \/ IsPhrase(l)}

\* C7, amended: in a session held by any of the four agents, an oracle
\* output whose only handoff marker is the exact token
\* call_scheduling_assistant_agent makes the detector return the scheduling
\* assistant; the session's stored pointer becomes
\* scheduling_assistant_agent when the re-invocation of the target returns,
\* and stays as it was when it raises.
C7_OnlySchedulingToken ==
    (ChatDone /\ MarkersIn(FirstOutput) = {TokSched}) =>
        /\ last.before_agent \in AgentIds
        /\ last.pq.handoff_detected
        /\ last.pq.new_agent = "scheduling_assistant_agent"
        /\ session[last.session_id].current_agent =
               IF last.pq.raised THEN last.before_agent
               ELSE "scheduling_assistant_agent"

\* C7 witness: mid-history, a session held by the course advisor gets the
\* scheduling token and moves to the scheduling assistant.
C7_Witness ==
    /\ ChatDone /\ last.before_rows > 0
    /\ last.before_agent = "course_advisor_agent"
    /\ MarkersIn(FirstOutput) = {TokSched}
    /\ ~last.pq.raised
    /\ session[last.session_id].current_agent = "scheduling_assistant_agent"

-----------------------------------------------------------------------------
(* C8 *)

\* C8 as stated: a transfer happens only when the detected target differs
\* from the agent the turn started with.
C8_TransferOnlyToAnotherAgent ==
    (CallDone /\ input.current_agent \in AgentIds /\ Transferred) =>
        last.pq.new_agent # input.current_agent

-----------------------------------------------------------------------------
(* C9 *)

\* C9: get_agent_by_name returns the triage definition for every name
\* outside the four ids, and a call of process_query that starts with such
\* a pointer invokes the triage definition first and returns a transcript
\* delta that starts with the user query.
C9_UnknownAgentIsTriage ==
    /\ \A a \in PQAgents \ AgentIds :
           get_agent_by_name(a) = create_triage_agent(handoff_functions)
    /\ (CallDone /\ input.current_agent \notin AgentIds) =>
           /\ last.pq.calls[1].agent = create_triage_agent(handoff_functions)
           /\ last.pq.calls[1].agent.name = "Triage Agent"
           /\ Len(last.pq.result.messages) >= 1
           /\ last.pq.result.messages[1]
                  = PlainDict("user", Some(input.user_query))
           /\ (~last.pq.raised /\ ~last.pq.handoff_detected) =>
                  Len(last.pq.result.messages)
                      = 1 + Len(input.run1.messages)

\* C9 witness: a call with a stale pointer whose oracle call returns two
\* messages with no directive.
C9_Witness ==
    /\ CallDone /\ input.current_agent = "stale_agent"
    /\ ~last.pq.raised /\ ~last.pq.handoff_detected
    /\ Len(last.pq.result.messages) = 3

-----------------------------------------------------------------------------
(* C10 *)

C10_Step ==
    (last'.op = "clear" /\ last'.session_id # NoSession) =>
        LET id == last'.session_id IN
        IF id \in DOMAIN session
            THEN /\ last'.status = 200
                 /\ messages'[id] = <<>>
                 /\ session'[id].current_agent = "triage_agent"
                 /\ DOMAIN session' = DOMAIN session
                 /\ \A s \in DOMAIN session \ {id} :
                        session'[s] = session[s] /\ messages'[s] = messages[s]
            ELSE /\ last'.status = 404
                 /\ session' = session
                 /\ messages' = messages

\* C10: clear_chat on an existing session removes all its messages and sets
\* its pointer to triage, leaving every other session as it was; on an id
\* that names no session it answers 404 and changes no session and no
\* message.
C10_ClearChat == [][C10_Step]_vars

\* C10 witness: a session with stored messages, handed to another agent,
\* has just been cleared.
C10_Witness ==
    /\ last.op = "clear" /\ last.status = 200
    /\ last.before_rows > 0
    /\ last.before_agent # "triage_agent"
    /\ messages[last.session_id] = <<>>
    /\ session[last.session_id].current_agent = "triage_agent"

-----------------------------------------------------------------------------
(* C11 *)

IsPrefix(s, t) == Len(s) <= Len(t) /\ SubSeq(t, 1, Len(s)) = s

C11_Step ==
    \A s \in DOMAIN messages :
        /\ s \in DOMAIN messages'
        /\ \/ IsPrefix(messages[s], messages'[s])
           \/ /\ last'.op = "clear"
              /\ last'.session_id = s
              /\ messages'[s] = <<>>

\* C11: in every step each session's stored rows are a prefix of its rows
\* after the step (rows are only appended, none removed, reordered or
\* modified), except for a clear of that session, which leaves it with no
\* rows at all.
C11_AppendOnly == [][C11_Step]_vars

\* C11 witness: a chat turn on a session that already had stored rows has
\* appended rows after them.
C11_Witness ==
    /\ ChatDone
    /\ last.before_rows > 0
    /\ Len(messages[last.session_id]) > last.before_rows + 1

-----------------------------------------------------------------------------
(* C12 *)

\* Role and content of the messages submitted to the oracle, and of rows.
SubmittedShape(msgs) ==
    [i \in 1..Len(msgs) |-> <<msgs[i].role, msgs[i].content>>]
RowShape(rows) ==
    [i \in 1..Len(rows) |-> <<rows[i].role, Some(rows[i].content)>>]

\* The rows the session held before the turn handled last.
PriorRows == SubSeq(messages[last.session_id], 1, last.before_rows)

\* C12 as stated: the messages submitted to the oracle for the current agent
\* are the session's prior rows in order followed by the new user message,
\* which occurs once, at the end.
C12_HistoryThenQueryOnce ==
    ChatDone =>
        SubmittedShape(last.pq.calls[1].messages) =
            RowShape(PriorRows) \o <<<<"user", Some(last.query)>>>>

-----------------------------------------------------------------------------
(* C13 *)

\* C13: when a turn re-invokes a detected target, the second oracle call is
\* made for the target's definition with exactly two messages: a system
\* message naming the target agent, then the user query of the turn; no
\* stored row is part of it.
C13_ReinvokedWithFramingAndQuery ==
    (ChatDone /\ Len(last.pq.calls) = 2) =>
        LET call == last.pq.calls[2] IN
        /\ call.agent = get_agent_by_name(last.pq.new_agent)
        /\ Len(call.messages) = 2
        /\ call.messages[1].role = "system"
        /\ call.messages[1].content =
               Some(<<"You are the ",
                      get_agent_display_name(last.pq.new_agent), ".">>)
        /\ call.messages[2].role = "user"
        /\ call.messages[2].content = Some(last.query)

\* C13 witness: a turn on a session with stored rows re-invoked a target;
\* the first call carried the history, the second did not.
C13_Witness ==
    /\ ChatDone
    /\ Len(last.pq.calls) = 2
    /\ last.before_rows > 1
    /\ Len(last.pq.calls[1].messages) > 2
    /\ Len(last.pq.calls[2].messages) = 2

-----------------------------------------------------------------------------
(* C14 *)

\* The turn handled last resolved a handoff: the target was re-invoked and
\* its call returned.
HandoffResolved == ChatDone /\ Len(last.pq.calls) = 2 /\ ~last.pq.raised

\* The rows the turn handled last added to its session.
NewRows ==
    SubSeq(messages[last.session_id], last.before_rows + 1,
           Len(messages[last.session_id]))

\* C14: on a resolved handoff the messages process_query returns are the
\* user query, one notification naming the target, then the messages of the
\* target's output in order, and the rows the turn stores are those, in
\* that order; no message of the issuing agent's output is among them.
C14_HandoffDelta ==
    HandoffResolved =>
        LET delta == last.pq.result.messages
            reply == last.pq.outputs[2]
            issued == last.pq.outputs[1]
        IN /\ Len(delta) = 2 + Len(reply)
           /\ delta[1] = PlainDict("user", Some(last.query))
           /\ delta[2].role = "assistant"
           /\ delta[2].content =
                  Some(<<"I'll transfer you to the ",
                         get_agent_display_name(last.pq.new_agent), ".">>)
           /\ \A i \in 1..Len(reply) : delta[2 + i] = reply[i]
           /\ Len(NewRows) = Len(delta)
           /\ \A i \in 1..Len(delta) :
                  /\ NewRows[i].role = delta[i].role
                  /\ ~IsNone(delta[i].content) =>
                         NewRows[i].content = Val(delta[i].content)
           /\ \A i \in 1..Len(issued) : \A j \in 1..Len(NewRows) :
                  IsNone(issued[i].content)
                      \/ NewRows[j].content # Val(issued[i].content)

\* C14 witness: a resolved handoff on a session with stored rows whose
\* target answered with two messages.
C14_Witness ==
    /\ HandoffResolved
    /\ last.before_rows > 0
    /\ Len(last.pq.outputs[2]) = 2
    /\ Len(NewRows) = 4

-----------------------------------------------------------------------------
(* C15 *)

\* The call handled last was a search of the index; it returned.
SearchDone == last.op = "search"
SearchReturned == SearchDone /\ ~last.raised

\* The similarity of the query to the vector at each position of the index.
IndexScores == cosine_similarity(input.sim, Val(index).embeddings)

\* The positions whose score is at least the threshold of the last search.
Eligible == {k \in DOMAIN IndexScores : IndexScores[k] >= last.threshold}

\* C15: whatever the index holds and whatever the similarities, topK and
\* threshold are, the sequence search returns is sorted by non-increasing
\* score, has at most topK entries, and holds no score below threshold.
C15_SortedCappedAboveThreshold ==
    SearchReturned =>
        LET r == last.results IN
        /\ \A i \in 1..(Len(r) - 1) : r[i].score >= r[i + 1].score
        /\ Len(r) <= last.top_k
        /\ \A i \in 1..Len(r) : r[i].score >= last.threshold

\* C15 witness: a search returned topK entries of different scores, the
\* lower of them above the threshold, while more positions than topK were
\* at or above the threshold.
C15_Witness ==
    /\ SearchReturned
    /\ Len(last.results) = 2
    /\ last.top_k = 2
    /\ last.results[1].score > last.results[2].score
    /\ last.results[2].score > last.threshold
    /\ Cardinality(Eligible) > 2

-----------------------------------------------------------------------------
(* C16 *)

\* The position at which the index holds an item.
PosOf(item) ==
    CHOOSE k \in DOMAIN Val(index).items : Val(index).items[k] = item

\* The positions of the items the last search returned.
Returned == {PosOf(last.results[i].item) : i \in 1..Len(last.results)}

\* C16 as stated: returned items of equal score come in the order of their
\* positions in the index, and an item that was not returned has no
\* returned item of the same score at a later position.
C16_TiesInInsertionOrder ==
    SearchReturned =>
        LET r == last.results IN
        /\ \A i \in 1..Len(r) : \A j \in (i + 1)..Len(r) :
               r[i].score = r[j].score => PosOf(r[i].item) < PosOf(r[j].item)
        /\ \A i \in 1..Len(r) : \A k \in DOMAIN IndexScores \ Returned :
               r[i].score = IndexScores[k] => PosOf(r[i].item) < k

-----------------------------------------------------------------------------
(* C17 *)

\* C17: search returns distinct items whose score is at least threshold, as
\* many as topK allows (all of them when fewer qualify), and every item at
\* or above the threshold that it leaves out scores no higher than any
\* item it returns.
C17_TopKOfEligible ==
    SearchReturned =>
        LET r == last.results IN
        /\ Returned \subseteq Eligible
        /\ Cardinality(Returned) = Len(r)
        /\ \A i \in 1..Len(r) : r[i].score = IndexScores[PosOf(r[i].item)]
        /\ Len(r) = IF Cardinality(Eligible) < last.top_k
                        THEN Cardinality(Eligible) ELSE last.top_k
        /\ \A k \in Eligible \ Returned : \A i \in 1..Len(r) :
               r[i].score >= IndexScores[k]

\* C17 witness: a search returned an item whose score equals the threshold
\* and left out an item at or above the threshold because topK was reached.
C17_Witness ==
    /\ SearchReturned
    /\ Len(last.results) = last.top_k
    /\ \E i \in 1..Len(last.results) :
           last.results[i].score = last.threshold
    /\ Eligible \ Returned # {}

-----------------------------------------------------------------------------
(* C18 *)

\* C18 as stated: on an index on which load_or_create has returned, a search
\* for which no stored vector reaches the threshold raises nothing and
\* returns the empty sequence.
C18_EmptyNotError ==
    (SearchDone /\ Val(index).loaded /\ Eligible = {}) =>
        /\ ~last.raised
        /\ last.results = <<>>

-----------------------------------------------------------------------------
(* C19 *)

\* The queries the properties name.
Path_DataScience == CAREER_PATHS[1].career_path
Q_DataScience_Title ==
    <<"D", "a", "t", "a", " ", "S", "c", "i", "e", "n", "c", "e">>
Q_DataScience_Upper ==
    <<"D", "A", "T", "A", " ", "S", "C", "I", "E", "N", "C", "E">>
Q_Business ==
    <<"B", "u", "s", "i", "n", "e", "s", "s">>

\* The call handled last was recommend_courses.
RecDone == last.op = "recommend_courses"

\* The query of that call, case folded as the first statement of
\* recommend_courses folds it.
Folded == lower(last.interest)

\* The query equals a career-path key; it partially matches one (one is a
\* substring of the other).
EqualsKey ==
    \E i \in 1..Len(CAREER_PATHS) : CAREER_PATHS[i].career_path = Folded
PartialKeys ==
    {i \in 1..Len(CAREER_PATHS) :
        \/ IsSubstring(Folded, CAREER_PATHS[i].career_path)
        \/ IsSubstring(CAREER_PATHS[i].career_path, Folded)}

\* The course codes of the answer's lines, and whether a line carries a
\* similarity score.
AnswerCodes == [i \in 1..Len(last.result.lines) |-> last.result.lines[i].code]
HasMatchScores ==
    \E i \in 1..Len(last.result.lines) : ~IsNone(last.result.lines[i].match)

\* The courses CAREER_PATHS maps the i-th key to.
CoursesOfKey(i) == CAREER_PATHS[i].courses

\* C19: a query equal to a key is answered with that key's courses and
\* nothing from the other tiers, a query that only partially matches is
\* answered with the courses of a partially matching key and no similarity
\* result, and the index is searched only when the query neither equals nor
\* partially matches a key.
C19_NoFallThrough ==
    RecDone =>
        /\ EqualsKey =>
               /\ last.result.form = "exact"
               /\ ~last.searched /\ ~HasMatchScores
               /\ \E i \in 1..Len(CAREER_PATHS) :
                      /\ CAREER_PATHS[i].career_path = Folded
                      /\ IsPrefix(AnswerCodes, CoursesOfKey(i))
        /\ (~EqualsKey /\ PartialKeys # {}) =>
               /\ last.result.form = "partial"
               /\ ~last.searched /\ ~HasMatchScores
               /\ \E i \in PartialKeys :
                      /\ last.result.related = CAREER_PATHS[i].career_path
                      /\ IsPrefix(AnswerCodes, CoursesOfKey(i))
        /\ last.searched => (~EqualsKey /\ PartialKeys = {})
        /\ last.result.form \in {"semantic", "none"} => last.searched

\* C19 witness: with the course index built by an earlier semantic query,
\* "Business" (a key, and a substring of the earlier key business analytics)
\* is answered from the exact tier with the courses of business.
C19_Witness ==
    /\ RecDone
    /\ ~IsNone(index.courses)
    /\ last.interest = Q_Business
    /\ last.count = 2
    /\ last.result.form = "exact"
    /\ AnswerCodes = <<"BUS101", "ECON101">>

-----------------------------------------------------------------------------
(* C20 *)

\* C20: "data science", in lower case, title case or upper case, with the
\* default count is answered from the exact tier for the key data science
\* with exactly CS101, MATH150, DS200 in this order.
C20_DataScience ==
    (RecDone
        /\ last.interest \in {Path_DataScience, Q_DataScience_Title,
                              Q_DataScience_Upper}
        /\ last.count = DefaultCount) =>
        /\ last.result.form = "exact"
        /\ last.result.shown = Path_DataScience
        /\ AnswerCodes = <<"CS101", "MATH150", "DS200">>
        /\ ~HasMatchScores
        /\ ~last.searched /\ ~last.raised

\* C20 witness: the query in upper case with count 3 was answered.
C20_Witness ==
    /\ RecDone
    /\ last.interest = Q_DataScience_Upper
    /\ last.count = DefaultCount
    /\ Len(last.result.lines) = 3

-----------------------------------------------------------------------------
(* C21 *)

\* The call handled last was get_poetry_inspiration.
PoetDone == last.op = "get_poetry_inspiration"

\* The keys of the two poetry dicts.
TopicKeys ==
    {CAMPUS_LOCATIONS[i] : i \in 1..Len(CAMPUS_LOCATIONS)}
        \cup {UNIVERSITY_TRADITIONS[i] : i \in 1..Len(UNIVERSITY_TRADITIONS)}

\* C21 as stated: get_poetry_inspiration resolves a topic by the tiers of
\* recommend_courses, so a topic that equals a location or tradition key is
\* answered with that entry from the exact tier, without a similarity score
\* and without an embedding search.
C21_PoetryExactTierFirst ==
    (PoetDone /\ last.interest \in TopicKeys) =>
        /\ ~last.searched
        /\ last.result.form = "inspiration"
        /\ AnswerCodes = <<last.interest>>
        /\ ~HasMatchScores

-----------------------------------------------------------------------------
(* C22 *)

\* C22 as stated: whatever the query and the count, recommend_courses
\* returns at most count courses (none when count is not positive), in the
\* exact, the partial and the semantic tier.
C22_NeverMoreThanCount ==
    RecDone =>
        Len(last.result.lines) <= (IF last.count > 0 THEN last.count ELSE 0)

-----------------------------------------------------------------------------
(* C23 *)

\* The first key, in the order of CAREER_PATHS, that the query partially
\* matches.
FirstPartialKey == CHOOSE i \in PartialKeys : \A j \in PartialKeys : i <= j

\* C23: a query that equals no key is answered from the partial tier
\* exactly when its case-folded text is a substring of a key or a key is a
\* substring of it; the answer then names the first such key in the order
\* of CAREER_PATHS and lists courses of that key only, from the first on,
\* as many as count asks for when the key has that many.
C23_PartialFirstKey ==
    (RecDone /\ ~EqualsKey) =>
        /\ (last.result.form = "partial") = (PartialKeys # {})
        /\ PartialKeys # {} =>
               /\ last.result.related =
                      CAREER_PATHS[FirstPartialKey].career_path
               /\ IsPrefix(AnswerCodes, CoursesOfKey(FirstPartialKey))
               /\ last.count \in 0..Len(CoursesOfKey(FirstPartialKey)) =>
                      Len(AnswerCodes) = last.count
               /\ ~last.searched

\* C23 witness: "Busi" is a substring of business analytics (fourth key)
\* and of business (seventh key); with count 2 the answer names business
\* analytics and lists its first two courses.
C23_Witness ==
    /\ RecDone
    /\ last.interest = <<"B", "u", "s", "i">>
    /\ {4, 7} \subseteq PartialKeys
    /\ last.count = 2
    /\ last.result.related = CAREER_PATHS[4].career_path
    /\ AnswerCodes = <<"BUS220", "CS101">>

-----------------------------------------------------------------------------
(* C24 *)

\* C24: when recommend_courses or get_poetry_inspiration is called twice in
\* a row with the same arguments, the second call returns what the first
\* returned, the same items in the same order; this includes a first call
\* that computed the vectors of the index the second call reuses.
C24_SameAnswerTwice ==
    ((RecDone \/ PoetDone) /\ last.repeated) => last.unchanged

\* C24 witness: a semantic query was answered with two or more courses by
\* the call that built the course index, and then again, with the same
\* answer, by a call that reused the index.
C24_Witness ==
    /\ RecDone
    /\ last.repeated /\ last.prev_built
    /\ last.searched /\ ~last.built
    /\ last.unchanged
    /\ Len(last.result.lines) >= 2

-----------------------------------------------------------------------------
(* C25 *)

\* The call handled last was a course lookup by code.
LookupDone == last.op \in {"get_course_info", "check_course_prerequisites"}

\* No text of the keys reaches the threshold against the query.
AllBelow(keys, threshold) ==
    \A i \in 1..Len(keys) : input.sim[keys[i]] < threshold

\* C25: no call of recommend_courses, of get_poetry_inspiration or of a
\* course lookup raises, and a query that matches nothing is answered with
\* the not-found text about that query: an interest that equals no key,
\* partially matches no key and is similar to no course, a topic similar to
\* no location and no tradition, a course code that is not in COURSES.
C25_NotFoundIsReturned ==
    /\ (RecDone \/ PoetDone \/ LookupDone) => ~last.raised
    /\ (RecDone /\ ~EqualsKey /\ PartialKeys = {}
            /\ AllBelow(COURSES, CourseThreshold)) =>
           last.result = Answer("none", Folded, <<>>, <<>>)
    /\ (PoetDone /\ AllBelow(CAMPUS_LOCATIONS, PoetThreshold)
            /\ AllBelow(UNIVERSITY_TRADITIONS, PoetThreshold)) =>
           last.result = Answer("none", last.interest, <<>>, <<>>)
    /\ (LookupDone /\ CourseAt(upper(last.interest)) = 0) =>
           last.result = Answer("none", upper(last.interest), <<>>, <<>>)

\* C25 witness: "biology" equals and partially matches no key, the search
\* of the course index finds no course at 0.3 or above, and the call
\* returned the not-found text.
C25_Witness ==
    /\ RecDone
    /\ last.interest = <<"b", "i", "o", "l", "o", "g", "y">>
    /\ last.count = DefaultCount
    /\ last.searched
    /\ AllBelow(COURSES, CourseThreshold)
    /\ last.result.form = "none"
    /\ ~last.raised

-----------------------------------------------------------------------------
(* C26 *)

\* C26: "biology" equals no career-path key and partially matches none, so
\* recommend_courses searches the course index for it; what the search
\* returns is then decided by the similarities the oracle's vectors give.
C26_BiologyIsSearched ==
    (RecDone /\ last.interest = <<"b", "i", "o", "l", "o", "g", "y">>) =>
        /\ ~EqualsKey /\ PartialKeys = {}
        /\ last.searched
        /\ \A i \in 1..Len(last.result.lines) :
               Val(last.result.lines[i].match) >= CourseThreshold

-----------------------------------------------------------------------------
(* C27 *)

\* C27 as stated: when a call makes the first use of a collection in its
\* process and a readable cache file of the collection exists, the index is
\* loaded from the file and the vectors are not computed again.
C27_CacheLoadedOnFirstUse ==
    ((RecDone \/ PoetDone) /\ last.first_use /\ last.had_cache) =>
        ~last.built

-----------------------------------------------------------------------------
(* C30 *)

C30_Step ==
    (last'.op = "chat" /\ last'.status # 200) =>
        /\ last'.status \in 400..499
        /\ session' = session
        /\ messages' = messages

\* C30 as stated: a chat request that is turned away because its query is
\* missing or empty or its body is malformed is answered with a client
\* error (a 4xx status), and it creates no session, stores no message and
\* writes no pointer.
C30_RejectedIsClientError == [][C30_Step]_vars

-----------------------------------------------------------------------------
(* C28 *)

\* The course index with the complete table, and what a search of it with
\* the default count answers.
CompleteIndex ==
    [items |-> COURSES, embeddings |-> embed_items(COURSES), loaded |-> TRUE]
CompleteAnswer ==
    search(CompleteIndex, input.sim, DefaultCount, CourseThreshold,
           argsort_by(cosine_similarity(input.sim, CompleteIndex.embeddings),
                      input.stable))

\* C28 as stated: whichever way two first uses of the course index
\* interleave, the search of every caller is made on the complete table:
\* it does not raise and it answers what a search of the complete index
\* answers.
C28_RaceCostsOnlyWork ==
    \A c \in 1..MaxCallers :
        threads[c].pc = "done" =>
            /\ ~threads[c].out.raised
            /\ threads[c].out = CompleteAnswer

-----------------------------------------------------------------------------
(* C29 *)

\* A step of a request on one session leaves the row, the stored messages
\* and the requests of every other session as they were (but for the note
\* that a request overlapped them).
C29_Step ==
    /\ \A s \in DOMAIN session :
           s # last'.session_id =>
               /\ s \in DOMAIN session'
               /\ session'[s] = session[s]
               /\ messages'[s] = messages[s]
    /\ \A q \in 1..MaxRequests :
           (threads[q].pc # "idle"
                /\ threads[q].session_id # last'.session_id) =>
               threads'[q] = [threads[q] EXCEPT
                                  !.overlapped = threads'[q].overlapped]

\* The turn of request r came out as chat_endpoint computes it from the
\* rows and the pointer its session had when r arrived.
C29_AsIfAlone(r) ==
    LET t == threads[r]
        rows1 == Append(t.before,
                        Message("user", t.query, NoneStr, NoneStr, NoneStr))
        pq == process_query(t.query, ExistingMessages(rows1),
                            t.current_agent, t.run1, t.run2)
    IN /\ t.pq = pq
       /\ t.after_rows =
              rows1 \o SaveNewMessages(pq.result.messages, t.query,
                                       pq.result.agent_display_name)
       /\ t.after_agent = pq.result.current_agent

\* C29: under every interleaving of the steps of concurrent requests, a
\* step of a chat turn or of a clear on one session changes neither the
\* stored messages nor the current-agent pointer of any other session, and
\* a turn during which only requests of other sessions wrote ends with the
\* result, the rows and the pointer it would have had with no other request
\* running.
C29_NoInterference ==
    /\ [](\A r \in 1..MaxRequests :
              (threads[r].pc = "done" /\ threads[r].op = "chat"
                   /\ threads[r].alone) => C29_AsIfAlone(r))
    /\ [][C29_Step]_vars

\* C29 witness: a turn on a session that had stored rows and had been
\* handed to the course advisor has finished while a request of another
\* session wrote in between, and no request of its own session did.
C29_Witness ==
    \E r \in 1..MaxRequests :
        /\ threads[r].pc = "done" /\ threads[r].op = "chat"
        /\ threads[r].alone /\ threads[r].overlapped
        /\ threads[r].before # <<>>
        /\ threads[r].current_agent = "course_advisor_agent"
        /\ Len(threads[r].after_rows) > Len(threads[r].before) + 1
        /\ Cardinality(DOMAIN session) = 2

-----------------------------------------------------------------------------
(* C31 *)

\* A step that creates a session is a chat turn on it which found no stored
\* row and the pointer at triage, and whose first oracle call is made with
\* the triage agent.
C31_Step ==
    \A s \in (DOMAIN session') \ (DOMAIN session) :
        /\ last'.op = "chat" /\ last'.status = 200
        /\ last'.session_id = s
        /\ last'.before_rows = 0
        /\ last'.before_agent = "triage_agent"
        /\ Len(last'.pq.calls) >= 1
        /\ last'.pq.calls[1].agent = create_triage_agent(handoff_functions)
        /\ messages'[s][1] =
               Message("user", last'.query, NoneStr, NoneStr, NoneStr)

\* C31: every session created by a chat request, whether the request carries
\* no session id or a session id that does not exist, starts with an empty
\* history and current-agent equal to triage, so its first turn is invoked
\* with the triage agent.
C31_NewSessionStartsAtTriage == [][C31_Step]_vars

\* C31 witness: a second session has just been created by a chat turn that
\* was invoked with the triage agent while the first session had been
\* handed to another agent.
C31_Witness ==
    /\ ChatDone
    /\ last.session_id = 2
    /\ last.before_rows = 0
    /\ UserRows(messages[2]) = 1
    /\ last.pq.calls[1].agent.name = "Triage Agent"
    /\ session[1].current_agent # "triage_agent"

-----------------------------------------------------------------------------
(* C32 *)

\* C32: in every state reachable from session creation through any sequence
\* of chat turns (with or without handoffs and oracle failures) and clears,
\* each session's persisted current-agent pointer is one of the four agent
\* ids triage_agent, course_advisor_agent, university_poet_agent,
\* scheduling_assistant_agent.
C32_PointerIsAnAgentId ==
    \A s \in DOMAIN session : session[s].current_agent \in AgentIds

\* C32 witness: a turn of a session that had been handed to the poet ended
\* in an oracle failure, and the pointer is still the poet's id.
C32_Witness ==
    /\ ChatDone
    /\ last.pq.raised
    /\ last.before_agent = "university_poet_agent"
    /\ session[last.session_id].current_agent = "university_poet_agent"

-----------------------------------------------------------------------------
(* C33 *)

\* C33: in every reachable state, a stored message carries an agent name
\* only if its role is assistant: user, system, tool and function messages
\* are always stored with no agent name.
C33_AgentNameOnlyOnAssistant ==
    \A s \in DOMAIN session :
        \A i \in 1..Len(messages[s]) :
            messages[s][i].agent_name # NoneStr =>
                messages[s][i].role = "assistant"

\* C33 witness: a session holds a user row and a tool row with no agent
\* name next to assistant rows that carry the name of the agent the turn
\* was handed to.
C33_Witness ==
    \E s \in DOMAIN session :
        /\ \E i \in 1..Len(messages[s]) :
               /\ messages[s][i].role = "tool"
               /\ messages[s][i].agent_name = NoneStr
        /\ \E i \in 1..Len(messages[s]) :
               /\ messages[s][i].role = "user"
               /\ messages[s][i].agent_name = NoneStr
        /\ \E i \in 1..Len(messages[s]) :
               /\ messages[s][i].role = "assistant"
               /\ messages[s][i].agent_name = "Course Advisor Agent"

-----------------------------------------------------------------------------
(* C34 *)

\* A finished call of process_query made one oracle invocation, or two when
\* the first returned and the detector found a directive in its output; it
\* ended with an error result exactly when an invocation raised; otherwise
\* the agent it returns is the one found in the first output, whatever the
\* reply of the handoff target contains.
C34_Bounded ==
    CallDone =>
        LET pq == last.pq
            agent == IF TruthyStr(input.current_agent)
                         THEN input.current_agent ELSE "triage_agent"
            det == DetectHandoff(input.run1.messages, agent)
            second == ~input.run1.raises /\ det.handoff_detected
        IN /\ Len(pq.calls) \in 1..2
           /\ Len(pq.calls) = 2 <=> second
           /\ pq.raised <=> (input.run1.raises \/ (second /\ input.run2.raises))
           /\ pq.raised => pq.result.current_agent = agent
           /\ (~pq.raised /\ second) =>
                  /\ pq.result.current_agent = det.new_agent
                  /\ pq.calls[2].agent = get_agent_by_name(det.new_agent)
           /\ (~pq.raised /\ ~second) => pq.result.current_agent = agent

\* C34: every turn terminates in Idle or Error provided each oracle call
\* returns or raises: process_query makes at most two oracle invocations per
\* turn, the reply of a handoff target is not scanned for further handoff
\* markers, so handoffs never chain or loop within one turn.
C34_TurnTerminates == <>CallDone /\ []C34_Bounded

\* C34 witness: the course advisor, re-invoked after a handoff, answered
\* with the scheduling token; the call ended after that second invocation
\* with the course advisor as the agent.
C34_Witness ==
    /\ CallDone
    /\ Len(last.pq.calls) = 2
    /\ ~last.pq.raised
    /\ \E i \in 1..Len(last.pq.outputs[2]) :
           /\ ~IsNone(last.pq.outputs[2][i].content)
           /\ Contains(Val(last.pq.outputs[2][i].content), TokSched)
    /\ last.pq.result.current_agent = "course_advisor_agent"

-----------------------------------------------------------------------------
(* C35 *)

\* A directive found by the detector names an agent other than triage, and
\* a step that takes the pointer of a session from another agent to triage
\* is a clear of that session.
C35_Step ==
    /\ (last'.op = "chat" /\ last'.pq.handoff_detected) =>
           last'.pq.new_agent \in AgentIds \ {"triage_agent"}
    /\ \A s \in DOMAIN session :
           (session[s].current_agent # "triage_agent"
                /\ session'[s].current_agent = "triage_agent") =>
               /\ last'.op = "clear" /\ last'.status = 200
               /\ last'.session_id = s

-----------------------------------------------------------------------------
(* C36 *)

\* The rows a chat turn adds to its session: the stored rows stay, the
\* first new row is the query as a user message, no later new row is the
\* query as a user message, and the delta of process_query, which begins
\* with the query, adds one row for each of its other messages.
C36_Step ==
    (last'.op = "chat" /\ last'.status = 200) =>
        LET sid == last'.session_id
            old == IF sid \in DOMAIN session THEN messages[sid] ELSE <<>>
            new == messages'[sid]
            delta == last'.pq.result.messages
            IsQuery(row) == row.role = "user" /\ row.content = last'.query
        IN /\ Len(new) > Len(old)
           /\ SubSeq(new, 1, Len(old)) = old
           /\ new[Len(old) + 1] =
                  Message("user", last'.query, NoneStr, NoneStr, NoneStr)
           /\ \A i \in (Len(old) + 2)..Len(new) : ~IsQuery(new[i])
           /\ delta[1] = PlainDict("user", Some(last'.query))
           /\ Len(new) = Len(old) + Len(delta)

\* C36: every chat request that passes validation stores the user's query
\* exactly once as a user-role message, before any message produced in
\* that turn, although process_query also returns the query as the first
\* element of its transcript delta; this holds on the no-handoff, handoff
\* and oracle-failure paths.
C36_QueryStoredOnce == [][C36_Step]_vars

\* C36 witness: a handoff turn on a session with stored rows has added the
\* query once, followed by the notice and the target's messages.
C36_Witness ==
    /\ ChatDone
    /\ last.before_rows > 0
    /\ last.pq.handoff_detected /\ ~last.pq.raised
    /\ messages[last.session_id][last.before_rows + 1].role = "user"
    /\ Len(messages[last.session_id]) = last.before_rows + 4
    /\ UserRows(messages[last.session_id]) = 2

-----------------------------------------------------------------------------
(* C37 *)

\* A message with content that is not empty, or with a function call or a
\* tool call.
HasPayload(msg) ==
    \/ TruthyText(msg.content)
    \/ TruthyStr(msg.function_call)
    \/ TruthyStr(msg.tool_calls)

\* C37: the history process_query submits to the oracle is normalized
\* without changing the caller's list: every submitted message has
\* non-empty content or a function/tool call, no submitted message has role
\* tool (it is sent as function), every function-role message has a name,
\* and the relative order of the kept messages is preserved.
C37_HistoryNormalized ==
    CallDone =>
        LET submitted == last.pq.calls[1].messages
            kept == SelectSeq(input.session_messages, HasPayload)
        IN /\ \A i \in 1..Len(submitted) :
                  /\ HasPayload(submitted[i])
                  /\ submitted[i].role # "tool"
                  /\ submitted[i].role = "function" =>
                         TruthyStr(submitted[i].name)
           /\ Len(submitted) = Len(kept) + 1
           /\ \A i \in 1..Len(kept) :
                  /\ submitted[i].content = kept[i].content
                  /\ submitted[i].function_call = kept[i].function_call
                  /\ submitted[i].tool_calls = kept[i].tool_calls
                  /\ submitted[i].role =
                         IF kept[i].role = "tool" THEN "function"
                         ELSE kept[i].role
           /\ submitted[Len(submitted)] =
                  PlainDict("user", Some(input.user_query))

\* C37 witness: a history with rows of empty content and a tool row was
\* submitted without the empty rows and with the tool row as a function
\* message under the default name.
C37_Witness ==
    /\ CallDone
    /\ \E i \in 1..Len(input.session_messages) :
           ~HasPayload(input.session_messages[i])
    /\ \E i \in 1..Len(input.session_messages) :
           input.session_messages[i].role = "tool"
    /\ Len(last.pq.calls[1].messages) < Len(input.session_messages) + 1
    /\ \E i \in 1..Len(last.pq.calls[1].messages) :
           /\ last.pq.calls[1].messages[i].role = "function"
           /\ last.pq.calls[1].messages[i].name = "generic_function"

-----------------------------------------------------------------------------
(* C38 *)

EnrollDone == last.op = "check_enrollment_status"

====
